---- MODULE Spec2Model ----
(***************************************************************************)
(* A model of realmpipe's interception pipeline: the frame codec           *)
(* (proxy/codec.rs), the raw packet (proxy/raw.rs), the lazy-decode        *)
(* handle (pipe/autopacket.rs), the packet context (pipe/context.rs) and   *)
(* the relay (pipe/pipe.rs), over a small excerpt of the message catalog   *)
(* (core/src/packets/mod.rs).                                              *)
(***************************************************************************)
EXTENDS Integers, Sequences, FiniteSets, TLC

(***************************************************************************)
(* Bytes and big-endian integers                                           *)
(***************************************************************************)

RECURSIVE Xor(_, _)
\* bitwise exclusive or of two naturals
Xor(a, b) ==
    IF a = 0 THEN b
    ELSE IF b = 0 THEN a
    ELSE (((a % 2) + (b % 2)) % 2) + 2 * Xor(a \div 2, b \div 2)

\* Cursor::get_u32_be: the big-endian u32 held in the first four bytes
get_u32_be(buf) ==
    ((buf[1] * 256 + buf[2]) * 256 + buf[3]) * 256 + buf[4]

\* u32::to_be_bytes
to_be_bytes(n) ==
    << (n \div 16777216) % 256, (n \div 65536) % 256, (n \div 256) % 256, n % 256 >>

\* slice[from..] with a 0-based start, as a sequence
SliceFrom(s, from) == SubSeq(s, from + 1, Len(s))

\* slice[..to] with a 0-based exclusive end, as a sequence
SliceTo(s, to) == SubSeq(s, 1, to)

RECURSIVE Concat(_)
\* the concatenation of a sequence of byte sequences
Concat(ss) == IF ss = << >> THEN << >> ELSE Head(ss) \o Concat(Tail(ss))

RECURSIVE SumLen(_)
\* the total length of a sequence of byte sequences
SumLen(ss) == IF ss = << >> THEN 0 ELSE Len(Head(ss)) + SumLen(Tail(ss))

(***************************************************************************)
(* The stream cipher (crate::rc4, whose source is not among the files):    *)
(* process(buf) XORs a keystream over buf and advances by len(buf).  The   *)
(* state is the key and the number of keystream bytes produced so far.     *)
(***************************************************************************)

\* the keystream byte at position pos (0-based) for a key: a fixed function
\* of key and position standing for RC4's generator
KeyStreamByte(key, pos) ==
    (key[(pos % Len(key)) + 1] * 31 + pos * 17 + 5) % 256

Rc4_new(key) == [key |-> key, pos |-> 0]

\* Rc4::process: the advanced cipher and the XORed bytes
Rc4_process(rc4, buf) ==
    [ rc4 |-> [rc4 EXCEPT !.pos = @ + Len(buf)],
      buf |-> [i \in 1..Len(buf) |-> Xor(buf[i], KeyStreamByte(rc4.key, rc4.pos + i - 1))] ]

(***************************************************************************)
(* Mappings (mappings.rs)                                                  *)
(***************************************************************************)

RC4_LEN == 26

\* the 26-byte binary key of the mappings in use
binary_rc4 == [i \in 1..RC4_LEN |-> (i * 37 + 11) % 256]

\* Mappings::get_ciphers
get_ciphers ==
    << Rc4_new(SliceTo(binary_rc4, RC4_LEN \div 2)),
       Rc4_new(SliceFrom(binary_rc4, RC4_LEN \div 2)) >>

\* the wire-ID -> internal-ID table of the mappings in use (Mappings.game_packet_ids)
game_packet_ids ==
    (42 :> "GotoAck") @@ (5 :> "CancelTrade") @@ (9 :> "Ping") @@ (77 :> "VerifyEmail")
    @@ (35 :> "EnemyShoot")

\* Mappings::new: the inverse table, built by inserting every (internal, wire) pair
internal_packet_ids ==
    [i \in {game_packet_ids[g] : g \in DOMAIN game_packet_ids} |->
        CHOOSE g \in DOMAIN game_packet_ids : game_packet_ids[g] = i]

\* Option values
Some(v) == [some |-> TRUE, v |-> v]
None == [some |-> FALSE, v |-> 0]

\* Mappings::get_internal_id
get_internal_id(game_id) ==
    IF game_id \in DOMAIN game_packet_ids THEN Some(game_packet_ids[game_id]) ELSE None

\* Mappings::get_game_id
get_game_id(internal_id) ==
    IF internal_id \in DOMAIN internal_packet_ids
    THEN Some(internal_packet_ids[internal_id]) ELSE None

(***************************************************************************)
(* Mappings::new (mappings.rs) on a hex key and a wire-ID table given by   *)
(* the caller                                                              *)
(***************************************************************************)

\* the value of a hex digit given by its character code, 16 for any other
\* character
hex_val(c) ==
    IF c >= 48 /\ c <= 57 THEN c - 48
    ELSE IF c >= 97 /\ c <= 102 THEN c - 87
    ELSE IF c >= 65 /\ c <= 70 THEN c - 55
    ELSE 16

\* hex::decode: an odd length or a character that is no hex digit is an error
hex_decode(str) ==
    IF Len(str) % 2 # 0 \/ \E k \in 1..Len(str) : hex_val(str[k]) = 16
    THEN [ok |-> FALSE, v |-> << >>]
    ELSE [ok |-> TRUE,
          v |-> [k \in 1..(Len(str) \div 2) |->
                    16 * hex_val(str[2 * k - 1]) + hex_val(str[2 * k])]]

\* the value standing in an Err result
NoMappings == [binary_rc4 |-> << >>, game_packet_ids |-> << >>, internal_packet_ids |-> << >>]

RECURSIVE insert_ids_overwriting(_, _, _)
\* the loop keeping the last wire ID inserted for an internal ID
insert_ids_overwriting(order, table, acc) ==
    IF order = << >> THEN [ok |-> TRUE, v |-> acc]
    ELSE insert_ids_overwriting(Tail(order), table,
            [i \in (DOMAIN acc) \cup { table[Head(order)] } |->
                IF i = table[Head(order)] THEN Head(order) ELSE acc[i]])

RECURSIVE insert_ids(_, _, _)
\* the loop over game_packet_ids in the order the HashMap yields its entries:
\* each (internal ID, wire ID) is inserted, and an insert that finds an older
\* entry is the error
insert_ids(order, table, acc) ==
    IF order = << >> THEN [ok |-> TRUE, v |-> acc]
    ELSE IF table[Head(order)] \in DOMAIN acc
    THEN [ok |-> FALSE, v |-> acc]
    ELSE insert_ids(Tail(order), table, (table[Head(order)] :> Head(order)) @@ acc)

\* Mappings::new taking every key that hex-decodes
Mappings_new_any_length(hex_rc4, table, order) ==
    IF ~hex_decode(hex_rc4).ok
    THEN [ok |-> FALSE, err |-> "InvalidRC4Key", v |-> NoMappings]
    ELSE IF ~insert_ids(order, table, << >>).ok
    THEN [ok |-> FALSE, err |-> "InvalidPacketMappings", v |-> NoMappings]
    ELSE [ok |-> TRUE, err |-> "none",
          v |-> [binary_rc4 |-> hex_decode(hex_rc4).v, game_packet_ids |-> table,
                 internal_packet_ids |-> insert_ids(order, table, << >>).v]]

\* Mappings::new with the loop that overwrites
Mappings_new_overwriting(hex_rc4, table, order) ==
    IF ~hex_decode(hex_rc4).ok \/ Len(hex_decode(hex_rc4).v) # RC4_LEN
    THEN [ok |-> FALSE, err |-> "InvalidRC4Key", v |-> NoMappings]
    ELSE [ok |-> TRUE, err |-> "none",
          v |-> [binary_rc4 |-> hex_decode(hex_rc4).v, game_packet_ids |-> table,
                 internal_packet_ids |-> insert_ids_overwriting(order, table, << >>).v]]

\* Mappings::new
Mappings_new(hex_rc4, table, order) ==
    IF ~hex_decode(hex_rc4).ok \/ Len(hex_decode(hex_rc4).v) # RC4_LEN
    THEN [ok |-> FALSE, err |-> "InvalidRC4Key", v |-> NoMappings]
    ELSE IF ~insert_ids(order, table, << >>).ok
    THEN [ok |-> FALSE, err |-> "InvalidPacketMappings", v |-> NoMappings]
    ELSE [ok |-> TRUE, err |-> "none",
          v |-> [binary_rc4 |-> hex_decode(hex_rc4).v, game_packet_ids |-> table,
                 internal_packet_ids |-> insert_ids(order, table, << >>).v]]

\* Mappings::get_internal_id of a constructed value
Mappings_get_internal_id(m, game_id) ==
    IF game_id \in DOMAIN m.game_packet_ids THEN Some(m.game_packet_ids[game_id])
    ELSE [some |-> FALSE, v |-> "none"]

\* Mappings::get_game_id of a constructed value
Mappings_get_game_id(m, internal_id) ==
    IF internal_id \in DOMAIN m.internal_packet_ids
    THEN Some(m.internal_packet_ids[internal_id]) ELSE None

(***************************************************************************)
(* The message catalog (core/src/packets/mod.rs), an excerpt: variants     *)
(* whose fields are fixed-width big-endian integers, and EnemyShoot, whose *)
(* last two fields are optional.  An f32 is kept as its bits, and the      *)
(* WorldPosData of EnemyShoot as its two f32 fields.                       *)
(***************************************************************************)

\* define_packets!: the Client group and the Server group
ClientPackets == {"CancelTrade", "Escape", "GotoAck"}
ServerPackets == {"EnemyShoot", "Ping", "VerifyEmail"}
InternalPacketId == ClientPackets \cup ServerPackets

\* the group a variant is declared in
DeclaredSide(id) == IF id \in ClientPackets THEN "Client" ELSE "Server"

\* the declared field types of each variant, in declared order
PacketFields(id) ==
    CASE id = "CancelTrade" -> << >>
      [] id = "Escape" -> << >>
      [] id = "GotoAck" -> << "u32" >>
      [] id = "Ping" -> << "u32" >>
      [] id = "VerifyEmail" -> << >>
      [] id = "EnemyShoot" ->
            << "u8", "u32", "u8", "f32", "f32", "f32", "u16", "Option<u8>", "Option<f32>" >>

\* whether a field type is Option<T>, and its T
IsOption(type) == type \in { "Option<u8>", "Option<f32>" }

OptionOf(type) == IF type = "Option<u8>" THEN "u8" ELSE "f32"

\* size_of::<Self>() of the primitive adapters
size_of(type) ==
    CASE type = "u8" -> 1 [] type = "u16" -> 2 [] type = "u32" -> 4 [] type = "f32" -> 4

RECURSIVE from_be_bytes(_)
\* Self::from_be_bytes
from_be_bytes(raw) ==
    IF raw = << >> THEN 0
    ELSE raw[Len(raw)] + 256 * from_be_bytes(SubSeq(raw, 1, Len(raw) - 1))

RECURSIVE put_int_be(_, _)
\* put_be of an unsigned primitive of n bytes
put_int_be(v, n) ==
    IF n = 0 THEN << >> ELSE put_int_be(v \div 256, n - 1) \o << v % 256 >>

RECURSIVE get_fields(_, _, _)
\* define_packet_adapter! get_be: the fields decoded in declared order; the
\* first primitive that finds too few bytes remaining fails the decode.  An
\* Option<T> field is None when nothing remains and T::get_be otherwise
get_fields(types, bytes, acc) ==
    IF types = << >> THEN [ok |-> TRUE, fields |-> acc, err |-> "none"]
    ELSE IF IsOption(Head(types))
    THEN (IF bytes = << >> THEN get_fields(Tail(types), bytes, Append(acc, None))
          ELSE IF Len(bytes) < size_of(OptionOf(Head(types)))
          THEN [ok |-> FALSE, fields |-> << >>, err |-> "InsufficientData"]
          ELSE get_fields(Tail(types), SliceFrom(bytes, size_of(OptionOf(Head(types)))),
                          Append(acc, Some(from_be_bytes(
                                             SliceTo(bytes, size_of(OptionOf(Head(types)))))))))
    ELSE IF Len(bytes) < size_of(Head(types))
         THEN [ok |-> FALSE, fields |-> << >>, err |-> "InsufficientData"]
         ELSE get_fields(Tail(types), SliceFrom(bytes, size_of(Head(types))),
                         Append(acc, from_be_bytes(SliceTo(bytes, size_of(Head(types))))))

RECURSIVE put_fields(_, _)
\* define_packet_adapter! put_be: the fields encoded in declared order; an
\* Option<T> field puts its value when it has one and nothing otherwise
put_fields(types, fields) ==
    IF types = << >> THEN << >>
    ELSE IF IsOption(Head(types))
    THEN (IF Head(fields).some
          THEN put_int_be(Head(fields).v, size_of(OptionOf(Head(types)))) ELSE << >>)
         \o put_fields(Tail(types), Tail(fields))
    ELSE put_int_be(Head(fields), size_of(Head(types))) \o put_fields(Tail(types), Tail(fields))

(***************************************************************************)
(* The field codec (core/src/adapters): the primitives, RLE<Vec<T>, S>,    *)
(* RLE<String, S> and Option<T>.  A type is a record: k is "prim", "vec",  *)
(* "string" or "option", T the primitive (of the elements, for "vec"), S   *)
(* the primitive of the length prefix.  A string is the sequence of its    *)
(* code points.                                                            *)
(***************************************************************************)

\* size_of::<Self>() of a primitive
prim_size(T) == IF T \in {"bool", "i8"} THEN 1 ELSE size_of(T)

\* put_be of a primitive: to_be_bytes, a bool as u8
prim_put(T, v) ==
    IF T = "bool" THEN << IF v THEN 1 ELSE 0 >>
    ELSE IF T = "i8" THEN << IF v < 0 THEN v + 256 ELSE v >>
    ELSE put_int_be(v, size_of(T))

\* from_be_bytes of a primitive on exactly its bytes
prim_from_be_bytes(T, raw) ==
    IF T = "bool" THEN raw[1] # 0
    ELSE IF T = "i8" THEN (IF raw[1] >= 128 THEN raw[1] - 256 ELSE raw[1])
    ELSE from_be_bytes(raw)

\* the result of a get_be that found too few bytes
InsufficientData(bytes) == [ok |-> FALSE, err |-> "InsufficientData", v |-> 0, rest |-> bytes]

\* get_be of a primitive: the value and the bytes left in the buffer
prim_get(T, bytes) ==
    IF Len(bytes) < prim_size(T) THEN InsufficientData(bytes)
    ELSE [ok |-> TRUE, err |-> "none", v |-> prim_from_be_bytes(T, SliceTo(bytes, prim_size(T))),
          rest |-> SliceFrom(bytes, prim_size(T))]

\* S::from_usize: absent when the count does not fit the prefix type
from_usize(S, n) ==
    IF n <= (CASE S = "u8" -> 255 [] S = "i8" -> 127 [] S = "u16" -> 65535)
    THEN Some(n) ELSE None

\* len.to_usize(): absent for a negative count
to_usize(n) == IF n >= 0 THEN Some(n) ELSE None

\* try_for_each(|i| i.put_be(bytes)) over primitives, which never fail: the
\* bytes of the elements one after the other
put_items(T, items) ==
    [b \in 1..(Len(items) * prim_size(T)) |->
        prim_put(T, items[((b - 1) \div prim_size(T)) + 1])[((b - 1) % prim_size(T)) + 1]]

\* (0..len).map(|_| T::get_be(bytes)).collect() over primitives: n elements of
\* prim_size(T) bytes each; the first element that finds too few bytes ends
\* it with its error, the elements before it having been read
get_items(T, n, bytes) ==
    IF Len(bytes) < n * prim_size(T)
    THEN InsufficientData(SliceFrom(bytes, (Len(bytes) \div prim_size(T)) * prim_size(T)))
    ELSE [ok |-> TRUE, err |-> "none",
          v |-> [i \in 1..n |->
                    prim_from_be_bytes(T, SubSeq(bytes, (i - 1) * prim_size(T) + 1,
                                                 i * prim_size(T)))],
          rest |-> SliceFrom(bytes, n * prim_size(T))]

\* put_be writing the count cut to the width of the prefix
rle_vec_put_truncating(S, T, items, dst) ==
    [ok |-> TRUE, err |-> "none",
     dst |-> dst \o prim_put(S, Len(items) % (IF S = "u16" THEN 65536 ELSE 256))
                 \o put_items(T, items)]

\* put_be writing the number of bytes as the count
rle_vec_put_byte_count(S, T, items, dst) ==
    IF from_usize(S, Len(items) * prim_size(T)).some
    THEN [ok |-> TRUE, err |-> "none",
          dst |-> dst \o prim_put(S, Len(items) * prim_size(T)) \o put_items(T, items)]
    ELSE [ok |-> FALSE, err |-> "InvalidData", dst |-> dst]

\* RLE<Vec<T>, S>::put_be onto the sink dst
rle_vec_put(S, T, items, dst) ==
    IF from_usize(S, Len(items)).some
    THEN [ok |-> TRUE, err |-> "none",
          dst |-> dst \o prim_put(S, from_usize(S, Len(items)).v) \o put_items(T, items)]
    ELSE [ok |-> FALSE, err |-> "InvalidData", dst |-> dst]

\* the rest of RLE<Vec<T>, S>::get_be once the prefix p has been read
rle_vec_get_items(T, p) ==
    IF ~p.ok THEN p
    ELSE IF ~to_usize(p.v).some
    THEN [ok |-> FALSE, err |-> "InvalidData", v |-> 0, rest |-> p.rest]
    ELSE get_items(T, to_usize(p.v).v, p.rest)

\* RLE<Vec<T>, S>::get_be
rle_vec_get(S, T, bytes) == rle_vec_get_items(T, prim_get(S, bytes))

\* the UTF-8 bytes of a code point
utf8_char(c) ==
    IF c < 128 THEN << c >>
    ELSE IF c < 2048 THEN << 192 + (c \div 64), 128 + (c % 64) >>
    ELSE IF c < 65536
    THEN << 224 + (c \div 4096), 128 + ((c \div 64) % 64), 128 + (c % 64) >>
    ELSE << 240 + (c \div 262144), 128 + ((c \div 4096) % 64), 128 + ((c \div 64) % 64),
            128 + (c % 64) >>

RECURSIVE Joined(_, _, _)
\* the concatenation of the byte sequences ss[lo..hi]
Joined(ss, lo, hi) ==
    IF lo > hi THEN << >>
    ELSE IF lo = hi THEN ss[lo]
    ELSE Joined(ss, lo, (lo + hi) \div 2) \o Joined(ss, ((lo + hi) \div 2) + 1, hi)

\* String::into_bytes
into_string_bytes(str) == Joined([k \in 1..Len(str) |-> utf8_char(str[k])], 1, Len(str))

\* a continuation byte
IsCont(b) == b >= 128 /\ b <= 191

\* the length of the well-formed UTF-8 sequence at the head of bytes, 0 when
\* there is none
utf8_width(b) ==
    IF b[1] < 128 THEN 1
    ELSE IF b[1] >= 194 /\ b[1] <= 223 /\ Len(b) >= 2 /\ IsCont(b[2]) THEN 2
    ELSE IF /\ b[1] >= 224 /\ b[1] <= 239 /\ Len(b) >= 3 /\ IsCont(b[2]) /\ IsCont(b[3])
            /\ (b[1] = 224 => b[2] >= 160) /\ (b[1] = 237 => b[2] <= 159) THEN 3
    ELSE IF /\ b[1] >= 240 /\ b[1] <= 244 /\ Len(b) >= 4
            /\ IsCont(b[2]) /\ IsCont(b[3]) /\ IsCont(b[4])
            /\ (b[1] = 240 => b[2] >= 144) /\ (b[1] = 244 => b[2] <= 143) THEN 4
    ELSE 0

\* the code point of a well-formed sequence
utf8_point(b) ==
    IF Len(b) = 1 THEN b[1]
    ELSE IF Len(b) = 2 THEN (b[1] - 192) * 64 + (b[2] - 128)
    ELSE IF Len(b) = 3 THEN ((b[1] - 224) * 64 + (b[2] - 128)) * 64 + (b[3] - 128)
    ELSE (((b[1] - 240) * 64 + (b[2] - 128)) * 64 + (b[3] - 128)) * 64 + (b[4] - 128)

RECURSIVE Starts(_, _, _)
\* the positions lo..hi of bytes that hold no continuation byte, in order
Starts(bytes, lo, hi) ==
    IF lo > hi THEN << >>
    ELSE IF lo = hi THEN (IF IsCont(bytes[lo]) THEN << >> ELSE << lo >>)
    ELSE Starts(bytes, lo, (lo + hi) \div 2) \o Starts(bytes, ((lo + hi) \div 2) + 1, hi)

\* where the sequence that starts at at[k] ends
EndOf(bytes, at, k) == IF k = Len(at) THEN Len(bytes) ELSE at[k + 1] - 1

\* from_utf8 given the positions at which sequences start: every byte belongs
\* to a well-formed sequence
from_utf8_at(bytes, at) ==
    IF /\ bytes # << >> => (at # << >> /\ at[1] = 1)
       /\ \A k \in 1..Len(at) :
            utf8_width(SubSeq(bytes, at[k], EndOf(bytes, at, k)))
                = EndOf(bytes, at, k) - at[k] + 1
    THEN [ok |-> TRUE,
          v |-> [k \in 1..Len(at) |-> utf8_point(SubSeq(bytes, at[k], EndOf(bytes, at, k)))]]
    ELSE [ok |-> FALSE, v |-> << >>]

\* String::from_utf8: the string, or the error for bytes that are not UTF-8
from_utf8(bytes) == from_utf8_at(bytes, Starts(bytes, 1, Len(bytes)))

\* RLE<String, S>::put_be
rle_string_put(S, str, dst) == rle_vec_put(S, "u8", into_string_bytes(str), dst)

\* the rest of RLE<String, S>::get_be once the bytes r have been read:
\* from_utf8, its error wrapped as Error::Other
rle_string_get_utf8(r) ==
    IF ~r.ok THEN r
    ELSE IF from_utf8(r.v).ok
    THEN [ok |-> TRUE, err |-> "none", v |-> from_utf8(r.v).v, rest |-> r.rest]
    ELSE [ok |-> FALSE, err |-> "Other", v |-> 0, rest |-> r.rest]

\* RLE<String, S>::get_be
rle_string_get(S, bytes) == rle_string_get_utf8(rle_vec_get(S, "u8", bytes))

\* Option<T>::put_be: nothing for None
option_put(T, v, dst) ==
    [ok |-> TRUE, err |-> "none", dst |-> IF v.some THEN dst \o prim_put(T, v.v) ELSE dst]

\* Option<T>::get_be wrapping what T::get_be gave
option_get_some(p) == IF p.ok THEN [p EXCEPT !.v = Some(p.v)] ELSE p

\* Option<T>::get_be: None when nothing remains in the buffer
option_get(T, bytes) ==
    IF Len(bytes) = 0 THEN [ok |-> TRUE, err |-> "none", v |-> None, rest |-> bytes]
    ELSE option_get_some(prim_get(T, bytes))

\* NetworkAdapter::put_be of a value of the given type onto the sink dst
put_be(type, v, dst) ==
    CASE type.k = "prim" -> [ok |-> TRUE, err |-> "none", dst |-> dst \o prim_put(type.T, v)]
      [] type.k = "vec" -> rle_vec_put(type.S, type.T, v, dst)
      [] type.k = "string" -> rle_string_put(type.S, v, dst)
      [] type.k = "option" -> option_put(type.T, v, dst)

\* NetworkAdapter::get_be of the given type from the bytes of a buffer
get_be(type, bytes) ==
    CASE type.k = "prim" -> prim_get(type.T, bytes)
      [] type.k = "vec" -> rle_vec_get(type.S, type.T, bytes)
      [] type.k = "string" -> rle_string_get(type.S, bytes)
      [] type.k = "option" -> option_get(type.T, bytes)

\* the macro is_serverside!
is_serverside(side) ==
    CASE side = "Client" -> TRUE
      [] side = "Server" -> FALSE

\* InternalPacketId::SERVERSIDE
SERVERSIDE == [id \in InternalPacketId |-> is_serverside(DeclaredSide(id))]

\* InternalPacketId::is_server
is_server(id) == SERVERSIDE[id]

\* InternalPacketId::is_client
is_client(id) == ~is_server(id)

\* Packet::get_internal_id
Packet_get_internal_id(packet) == packet.id

\* Packet::from_bytes: the decoder of that internal ID applied to the contents
Packet_from_bytes(id, bytes) ==
    LET r == get_fields(PacketFields(id), bytes, << >>)
    IN  [ok |-> r.ok, packet |-> [id |-> id, fields |-> r.fields], err |-> r.err]

\* Packet::into_bytes (called to_bytes in raw.rs): the encoded contents
Packet_to_bytes(packet) == put_fields(PacketFields(packet.id), packet.fields)

(***************************************************************************)
(* The raw packet (proxy/raw.rs): the whole frame, decrypted: four bytes   *)
(* of length, the wire ID, the contents.                                   *)
(***************************************************************************)

\* RawPacket::new
RawPacket_new(bytes) == [bytes |-> bytes]

\* RawPacket::into_bytes
into_bytes(raw) == raw.bytes

\* RawPacket::game_id
game_id(raw) == raw.bytes[5]

\* RawPacket::contents
contents(raw) == SliceFrom(raw.bytes, 5)

\* RawPacket::to_packet
to_packet(raw) ==
    LET id == get_internal_id(game_id(raw))
    IN  IF id.some
        THEN LET r == Packet_from_bytes(id.v, contents(raw))
             IN  IF r.ok THEN r ELSE [r EXCEPT !.err = "AdapterError"]
        ELSE [ok |-> FALSE, packet |-> [id |-> "none", fields |-> << >>],
              err |-> "UnmappedGameId"]

\* RawPacket::from_packet
from_packet(packet) ==
    LET internal_id == Packet_get_internal_id(packet)
        gid == get_game_id(internal_id)
    IN  IF gid.some
        THEN LET buf == << 0, 0, 0, 0 >> \o << gid.v >> \o Packet_to_bytes(packet)
                 len == Len(buf)
             IN  [ok |-> TRUE, raw |-> RawPacket_new(to_be_bytes(len) \o SliceFrom(buf, 4)),
                  err |-> "none"]
        ELSE [ok |-> FALSE, raw |-> RawPacket_new(<< >>), err |-> "UnmappedInternalId"]

(***************************************************************************)
(* The frame codec (proxy/codec.rs)                                        *)
(***************************************************************************)

\* a client codec with the halves of the key the other way round
Codec_new_client_unswapped ==
    LET c == get_ciphers IN [send_rc4 |-> c[1], recv_rc4 |-> c[2]]

\* Codec::new_client
Codec_new_client ==
    LET c == get_ciphers IN [recv_rc4 |-> c[1], send_rc4 |-> c[2]]

\* Codec::new_server taking the two ciphers in the order new_client does
Codec_new_server_unswapped ==
    LET c == get_ciphers IN [recv_rc4 |-> c[1], send_rc4 |-> c[2]]

\* Codec::new_server
Codec_new_server ==
    LET c == get_ciphers IN [send_rc4 |-> c[1], recv_rc4 |-> c[2]]

\* decrypt_contents deciphering from the wire ID on: packet[4..]
decrypt_contents_from_id(rc4, packet) ==
    LET r == Rc4_process(rc4, SliceFrom(packet, 4))
    IN  [rc4 |-> r.rc4, bytes |-> SliceTo(packet, 4) \o r.buf]

\* decode: self.recv_rc4.process(&mut packet[5..])
decrypt_contents(rc4, packet) ==
    LET r == Rc4_process(rc4, SliceFrom(packet, 5))
    IN  [rc4 |-> r.rc4, bytes |-> SliceTo(packet, 5) \o r.buf]

\* encode: self.send_rc4.process(&mut packet[5..])
encrypt_contents(rc4, packet) ==
    LET r == Rc4_process(rc4, SliceFrom(packet, 5))
    IN  [rc4 |-> r.rc4, bytes |-> SliceTo(packet, 5) \o r.buf]

NoPacket == RawPacket_new(<< >>)

\* decode taking the header off the buffer before the frame is whole
decode_taking_header(codec, buf, debug) ==
    IF Len(buf) < 4
    THEN [codec |-> codec, buf |-> buf, kind |-> "need_more", raw |-> NoPacket]
    ELSE IF Len(buf) < get_u32_be(buf)
    THEN [codec |-> codec, buf |-> SliceFrom(buf, 4), kind |-> "need_more", raw |-> NoPacket]
    ELSE IF get_u32_be(buf) < 5
    THEN [codec |-> codec, buf |-> buf, kind |-> "panic", raw |-> NoPacket]
    ELSE [codec |-> [codec EXCEPT !.recv_rc4 =
                        decrypt_contents(codec.recv_rc4, SliceTo(buf, get_u32_be(buf))).rc4],
          buf |-> SliceFrom(buf, get_u32_be(buf)), kind |-> "packet",
          raw |-> RawPacket_new(
                     decrypt_contents(codec.recv_rc4, SliceTo(buf, get_u32_be(buf))).bytes)]

\* decode deciphering the part of the contents that has arrived
decode_deciphering_early(codec, buf, debug) ==
    IF Len(buf) < 4
    THEN [codec |-> codec, buf |-> buf, kind |-> "need_more", raw |-> NoPacket]
    ELSE IF Len(buf) < get_u32_be(buf) /\ Len(buf) <= 5
    THEN [codec |-> codec, buf |-> buf, kind |-> "need_more", raw |-> NoPacket]
    ELSE IF Len(buf) < get_u32_be(buf)
    THEN [codec |-> [codec EXCEPT !.recv_rc4 = decrypt_contents(codec.recv_rc4, buf).rc4],
          buf |-> decrypt_contents(codec.recv_rc4, buf).bytes, kind |-> "need_more",
          raw |-> NoPacket]
    ELSE IF get_u32_be(buf) < 5
    THEN [codec |-> codec, buf |-> buf, kind |-> "panic", raw |-> NoPacket]
    ELSE [codec |-> [codec EXCEPT !.recv_rc4 =
                        decrypt_contents(codec.recv_rc4, SliceTo(buf, get_u32_be(buf))).rc4],
          buf |-> SliceFrom(buf, get_u32_be(buf)), kind |-> "packet",
          raw |-> RawPacket_new(
                     decrypt_contents(codec.recv_rc4, SliceTo(buf, get_u32_be(buf))).bytes)]

\* Decoder::decode.  debug says whether debug assertions are compiled in.  The
\* result is Ok(None) ("need_more"), Ok(Some(raw)) ("packet") or a panic: of the
\* debug assertion, or of the slice packet[5..] of a frame shorter than 5 bytes
decode(codec, buf, debug) ==
    IF Len(buf) < 4
    THEN [codec |-> codec, buf |-> buf, kind |-> "need_more", raw |-> NoPacket]
    ELSE LET packet_size == get_u32_be(buf)
         IN  IF debug /\ ~(packet_size >= 5)
             THEN [codec |-> codec, buf |-> buf, kind |-> "panic", raw |-> NoPacket]
             ELSE IF Len(buf) < packet_size
             THEN [codec |-> codec, buf |-> buf, kind |-> "need_more", raw |-> NoPacket]
             ELSE LET packet == SliceTo(buf, packet_size)
                      rest == SliceFrom(buf, packet_size)
                  IN  IF Len(packet) < 5
                      THEN [codec |-> codec, buf |-> rest, kind |-> "panic", raw |-> NoPacket]
                      ELSE LET d == decrypt_contents(codec.recv_rc4, packet)
                           IN  [codec |-> [codec EXCEPT !.recv_rc4 = d.rc4], buf |-> rest,
                                kind |-> "packet", raw |-> RawPacket_new(d.bytes)]

\* encode putting the frame in front of what dst already holds
encode_in_front(codec, packet, dst) ==
    LET e == encrypt_contents(codec.send_rc4, into_bytes(packet))
    IN  [codec |-> [codec EXCEPT !.send_rc4 = e.rc4], dst |-> e.bytes \o dst]

\* Encoder::encode: the codec and dst after the call
encode(codec, packet, dst) ==
    LET e == encrypt_contents(codec.send_rc4, into_bytes(packet))
    IN  [codec |-> [codec EXCEPT !.send_rc4 = e.rc4], dst |-> dst \o e.bytes]

(***************************************************************************)
(* The lazy-decode handle (core/src/pipe/autopacket.rs).  Each operation   *)
(* gives the handle after the call, the value returned, how many times it  *)
(* ran RawPacket::to_packet and how many warnings it logged.               *)
(***************************************************************************)

\* AutoPacket::new
AutoPacket_new(raw) == [raw |-> raw, decoded |-> None]

\* AutoPacket::into_raw
into_raw(auto) == auto.raw

\* get_any decoding on every call, whether or not a result is stored
get_any_redecoding(auto) ==
    LET id == get_internal_id(game_id(auto.raw))
    IN  IF id.some
        THEN LET decoded == Some(to_packet(auto.raw))
             IN  [auto |-> [auto EXCEPT !.decoded = decoded],
                  ret |-> IF decoded.v.ok THEN Some(decoded.v.packet) ELSE None,
                  decodes |-> 1,
                  warns |-> IF ~decoded.v.ok THEN 1 ELSE 0]
        ELSE [auto |-> auto, ret |-> None, decodes |-> 0, warns |-> 0]

\* AutoPacket::get_any
get_any(auto) ==
    LET id == get_internal_id(game_id(auto.raw))
    IN  IF id.some
        THEN LET fresh == ~auto.decoded.some
                 decoded == IF fresh THEN Some(to_packet(auto.raw)) ELSE auto.decoded
             IN  [auto |-> [auto EXCEPT !.decoded = decoded],
                  ret |-> IF decoded.v.ok THEN Some(decoded.v.packet) ELSE None,
                  decodes |-> IF fresh THEN 1 ELSE 0,
                  warns |-> IF fresh /\ ~decoded.v.ok THEN 1 ELSE 0]
        ELSE [auto |-> auto, ret |-> None, decodes |-> 0, warns |-> 0]

\* Packet::downcast_ref to the variant T
downcast_ref(packet, T) == IF packet.id = T THEN Some(packet) ELSE None

\* AutoPacket::downcast::<T>
downcast(auto, T) ==
    LET id == get_internal_id(game_id(auto.raw))
    IN  IF ~id.some
        THEN [auto |-> auto, ret |-> None, decodes |-> 0, warns |-> 0]
        ELSE IF id.v # T
        THEN [auto |-> auto, ret |-> None, decodes |-> 0, warns |-> 0]
        ELSE LET g == get_any(auto)
             IN  [g EXCEPT !.ret = IF g.ret.some THEN downcast_ref(g.ret.v, T) ELSE None]

(***************************************************************************)
(* The packet context (pipe/context.rs)                                    *)
(***************************************************************************)

\* PacketContext::default
PacketContext_default == [cancelled |-> FALSE, extra |-> << >>]

\* cancel_packet flipping the flag instead of setting it
cancel_packet_flip(ctx) == [ctx EXCEPT !.cancelled = ~@]

\* PacketContext::cancel_packet
cancel_packet(ctx) == [ctx EXCEPT !.cancelled = TRUE]

\* send_packet putting the packet at the front of the queue
send_packet_front(ctx, packet) == [ctx EXCEPT !.extra = << packet >> \o @]

\* PacketContext::send_packet
send_packet(ctx, packet) == [ctx EXCEPT !.extra = Append(@, packet)]

(***************************************************************************)
(* The relay (pipe/pipe.rs, Pipe::accept_client)                           *)
(***************************************************************************)

PacketSide == {"Client", "Server"}

Opposite(side) == IF side = "Client" THEN "Server" ELSE "Client"

RECURSIVE send_all(_, _)
\* a callback's send_packet calls, in the order it makes them
send_all(ctx, packets) ==
    IF packets = << >> THEN ctx
    ELSE send_all(send_packet(ctx, Head(packets)), Tail(packets))

\* one plugin state's on_packet on the handle and the context: what the plugin
\* does is act, whether it asks for the typed packet, the packets it sends
\* and whether it cancels
on_packet(auto, ctx, act) ==
    [got |-> IF act.typed THEN get_any(auto)
             ELSE [auto |-> auto, ret |-> None, decodes |-> 0, warns |-> 0],
     ctx |-> IF act.cancel THEN cancel_packet(send_all(ctx, act.extra))
             ELSE send_all(ctx, act.extra)]

\* the chain before its first callback
ChainStart(auto, ctx) ==
    [auto |-> auto, ctx |-> ctx, calls |-> << >>, decodes |-> 0, warns |-> 0]

\* the chain st after a callback that left r
ChainAfter(st, r) ==
    [auto |-> r.got.auto, ctx |-> r.ctx, calls |-> Append(st.calls, Len(st.calls) + 1),
     decodes |-> st.decodes + r.got.decodes, warns |-> st.warns + r.got.warns]

\* the chain after the next plugin's callback
ChainStep(st, acts) ==
    ChainAfter(st, on_packet(st.auto, st.ctx, acts[Len(st.calls) + 1]))

RECURSIVE for_each_plugin_until_cancel(_, _)
\* the chain stopping after the callback that cancels the packet
for_each_plugin_until_cancel(st, acts) ==
    IF Len(st.calls) = Len(acts) \/ st.ctx.cancelled THEN st
    ELSE for_each_plugin_until_cancel(ChainStep(st, acts), acts)

RECURSIVE for_each_plugin(_, _)
\* plugins.iter_mut().for_each(|p| p.on_packet(&mut auto, &mut ctx)): st is
\* the chain so far, calls the plugins whose callback has run
for_each_plugin(st, acts) ==
    IF Len(st.calls) = Len(acts) THEN st
    ELSE for_each_plugin(ChainStep(st, acts), acts)

\* the side given to a packet a plugin asked to send
extra_side(pkt) ==
    IF is_server(Packet_get_internal_id(pkt)) THEN "Server" ELSE "Client"

RECURSIVE queue_extra_until_error(_)
\* the loop over ctx.extra giving up at the first packet that does not encode
queue_extra_until_error(extra) ==
    IF extra = << >> THEN << >>
    ELSE LET pkt == Head(extra)
             raw == from_packet(pkt)
         IN  IF raw.ok
             THEN << [side |-> extra_side(pkt), raw |-> raw.raw] >>
                  \o queue_extra_until_error(Tail(extra))
             ELSE << >>

RECURSIVE queue_extra(_)
\* the loop over ctx.extra: each packet that encodes is queued with its side,
\* one that does not is logged and skipped
queue_extra(extra) ==
    IF extra = << >> THEN << >>
    ELSE LET pkt == Head(extra)
             raw == from_packet(pkt)
         IN  (IF raw.ok THEN << [side |-> extra_side(pkt), raw |-> raw.raw] >> ELSE << >>)
             \o queue_extra(Tail(extra))

\* the queue built without a received packet whose typed decode has failed
build_queue_skip_failed(side, auto, ctx) ==
    (IF ~ctx.cancelled /\ ~(auto.decoded.some /\ ~auto.decoded.v.ok)
     THEN << [side |-> side, raw |-> into_raw(auto)] >> ELSE << >>)
    \o queue_extra(ctx.extra)

\* the queue the closure builds for a received packet
build_queue(side, auto, ctx) ==
    (IF ~ctx.cancelled THEN << [side |-> side, raw |-> into_raw(auto)] >> ELSE << >>)
    \o queue_extra(ctx.extra)

\* client_sink.with_flat_map passing what came from the client as well
client_sink_filter_all(item) == << item.raw >>

\* client_sink.with_flat_map: the packets the client sink lets through
client_sink_filter(item) ==
    CASE item.side = "Client" -> << >>
      [] item.side = "Server" -> << item.raw >>

\* server_sink.with_flat_map: the packets the server sink lets through
server_sink_filter(item) ==
    CASE item.side = "Client" -> << item.raw >>
      [] item.side = "Server" -> << >>

\* the filter of the sink of one side
sink_filter(to, item) ==
    IF to = "Client" THEN client_sink_filter(item) ELSE server_sink_filter(item)

\* a sink of the relay with what is in front of it: the codec and the write
\* buffer of the framed sink, what its with_flat_map holds, what the fanout
\* holds for it, and the records of the packets encoded in this poll.  An item
\* e sent to the sinks is the queued item with the number of its batch and its
\* place in the batch

\* the framed sink encodes the packet of an item into its write buffer
framed_start_send(K, to, e) ==
    [K EXCEPT !.codec = encode(K.codec, e.item.raw, K.dst).codec,
              !.dst = encode(K.codec, e.item.raw, K.dst).dst,
              !.out = Append(K.out, [to |-> to, batch |-> e.batch, slot |-> e.slot,
                                     raw |-> e.item.raw])]

RECURSIVE framed_send_all(_, _, _)
\* the framed sink encodes the packets of several items
framed_send_all(K, to, es) ==
    IF es = << >> THEN K
    ELSE framed_send_all(framed_start_send(K, to, Head(es)), to, Tail(es))

\* WithFlatMap::try_empty_stream: what it holds goes to the framed sink, which
\* takes it when it is ready and leaves it where it is otherwise
try_empty_stream(K, to, ready) ==
    IF ready THEN framed_send_all([K EXCEPT !.held = << >>], to, K.held) ELSE K

\* the second half of WithFlatMap::start_send, K being the sink after
\* try_empty_stream: an item is refused while something is still held, else
\* what the filter makes of it is given to the framed sink or held
with_flat_map_feed(K, to, ready, e) ==
    IF K.held # << >> THEN [K |-> K, accepted |-> FALSE]
    ELSE IF ready
    THEN [K |-> framed_send_all(K, to, [i \in 1..Len(sink_filter(to, e.item)) |-> e]),
          accepted |-> TRUE]
    ELSE [K |-> [K EXCEPT !.held = [i \in 1..Len(sink_filter(to, e.item)) |-> e]],
          accepted |-> TRUE]

\* WithFlatMap::start_send
with_flat_map_start_send(K, to, ready, e) ==
    with_flat_map_feed(try_empty_stream(K, to, ready), to, ready, e)

\* what Downstream keeps of an item its sink answered r for
downstream_after(r, e) == IF r.accepted THEN r.K ELSE [r.K EXCEPT !.down = << e >>]

\* Downstream::keep_flushing: the item the fanout holds is sent again
keep_flushing(K, to, ready) ==
    IF K.down = << >> THEN K
    ELSE downstream_after(
            with_flat_map_start_send([K EXCEPT !.down = << >>], to, ready, K.down[1]),
            K.down[1])

\* the second half of Fanout::start_send, C and S being the two sinks after
\* keep_flushing: the item goes to both when neither holds one, and is
\* refused otherwise
fanout_send(C, S, rc, rs, e) ==
    IF C.down = << >> /\ S.down = << >>
    THEN [C |-> downstream_after(with_flat_map_start_send(C, "Client", rc, e), e),
          S |-> downstream_after(with_flat_map_start_send(S, "Server", rs, e), e),
          accepted |-> TRUE]
    ELSE [C |-> C, S |-> S, accepted |-> FALSE]

\* Fanout::start_send on client_sink.fanout(server_sink); rc and rs tell
\* whether the framed sink of the client and of the server are ready
fanout_start_send(C, S, rc, rs, e) ==
    fanout_send(keep_flushing(C, "Client", rc), keep_flushing(S, "Server", rs), rc, rs, e)

\* Fanout::poll_complete and Fanout::close as far as the items held go: what
\* the fanout holds is sent again and what the with_flat_map holds is given
\* to the framed sink
sink_flush(K, to, ready) == try_empty_stream(keep_flushing(K, to, ready), to, ready)

\* Select::poll that never changes the stream it polls first
select_poll_same_first(flag, a, b) ==
    IF a = "item"
    THEN [take |-> "first", ended |-> FALSE, flag |-> flag]
    ELSE IF b = "item"
    THEN [take |-> "second", ended |-> FALSE, flag |-> flag]
    ELSE [take |-> "none", ended |-> (a = "end" /\ b = "end"), flag |-> flag]

\* Select::poll on the two inbound streams, client first when flag is unset.
\* a and b are the polls of the stream polled first and second: "item",
\* "end" or "not_ready".  Gives which stream yields ("first", "second" or
\* "none"), whether the merged stream ends, and the flag after the call
select_poll(flag, a, b) ==
    IF a = "item"
    THEN [take |-> "first", ended |-> FALSE, flag |-> ~flag]
    ELSE IF b = "item"
    THEN [take |-> "second", ended |-> FALSE, flag |-> IF a # "end" THEN flag ELSE ~flag]
    ELSE [take |-> "none", ended |-> (a = "end" /\ b = "end"), flag |-> ~flag]

(***************************************************************************)
(* The policy preamble (net/proxy/policy.rs)                               *)
(***************************************************************************)

\* POLICY_REQUEST: the bytes of <policy-file-request/> and a zero byte
POLICY_REQUEST ==
    << 60, 112, 111, 108, 105, 99, 121, 45, 102, 105, 108, 101, 45, 114, 101,
       113, 117, 101, 115, 116, 47, 62, 0 >>

\* POLICY_FILE: the bytes of the policy document
POLICY_FILE ==
    << 10, 60, 63, 120, 109, 108, 32, 118, 101, 114, 115, 105, 111, 110, 61,
       34, 49, 46, 48, 34, 63, 62, 10, 60, 33, 68, 79, 67, 84, 89, 80, 69,
       32, 99, 114, 111, 115, 115, 45, 100, 111, 109, 97, 105, 110, 45, 112,
       111, 108, 105, 99, 121, 32, 83, 89, 83, 84, 69, 77, 32, 34, 47, 120,
       109, 108, 47, 100, 116, 100, 115, 47, 99, 114, 111, 115, 115, 45, 100,
       111, 109, 97, 105, 110, 45, 112, 111, 108, 105, 99, 121, 46, 100, 116,
       100, 34, 62, 10, 60, 99, 114, 111, 115, 115, 45, 100, 111, 109, 97,
       105, 110, 45, 112, 111, 108, 105, 99, 121, 62, 10, 32, 32, 32, 32, 60,
       115, 105, 116, 101, 45, 99, 111, 110, 116, 114, 111, 108, 32, 112,
       101, 114, 109, 105, 116, 116, 101, 100, 45, 99, 114, 111, 115, 115,
       45, 100, 111, 109, 97, 105, 110, 45, 112, 111, 108, 105, 99, 105, 101,
       115, 61, 34, 97, 108, 108, 34, 47, 62, 10, 32, 32, 32, 32, 60, 97,
       108, 108, 111, 119, 45, 97, 99, 99, 101, 115, 115, 45, 102, 114, 111,
       109, 32, 100, 111, 109, 97, 105, 110, 61, 34, 42, 34, 32, 116, 111,
       45, 112, 111, 114, 116, 115, 61, 34, 42, 34, 47, 62, 10, 60, 47, 99,
       114, 111, 115, 115, 45, 100, 111, 109, 97, 105, 110, 45, 112, 111,
       108, 105, 99, 121, 62, 10 >>

\* slice::starts_with
starts_with(s, prefix) == Len(prefix) <= Len(s) /\ SubSeq(s, 1, Len(prefix)) = prefix

\* TcpStreamExt::peek_max: the first bytes waiting on the socket, at most max
\* of them; they stay on the socket
peek_max(waiting, max) == SliceTo(waiting, IF Len(waiting) < max THEN Len(waiting) ELSE max)

\* the loop body asking for more bytes before it compares with the request
policy_step_prefix_first(bytes, waiting) ==
    IF starts_with(POLICY_REQUEST, bytes)
    THEN [kind |-> "continue", bytes |-> peek_max(waiting, Len(POLICY_REQUEST)),
          taken |-> 0, out |-> << >>, shutdown |-> FALSE]
    ELSE [kind |-> "stream", bytes |-> bytes, taken |-> 0, out |-> << >>,
          shutdown |-> FALSE]

\* the loop body reading the bytes off the socket instead of peeking
policy_step_reading(bytes, waiting) ==
    IF bytes = POLICY_REQUEST
    THEN [kind |-> "policy", bytes |-> bytes, taken |-> 0, out |-> POLICY_FILE,
          shutdown |-> TRUE]
    ELSE IF starts_with(POLICY_REQUEST, bytes)
    THEN [kind |-> "continue", bytes |-> bytes \o peek_max(waiting, Len(POLICY_REQUEST) - Len(bytes)),
          taken |-> Len(peek_max(waiting, Len(POLICY_REQUEST) - Len(bytes))),
          out |-> << >>, shutdown |-> FALSE]
    ELSE [kind |-> "stream", bytes |-> bytes, taken |-> 0, out |-> << >>,
          shutdown |-> FALSE]

\* the body of handle_policy_request's loop_fn, the loop state being bytes and
\* the socket having the bytes waiting: "policy" is Break(None) after the
\* policy file is written and the socket shut down, "continue" is
\* Continue with the bytes peeked, "stream" is Break(Some(stream)); taken is
\* the number of bytes the step removes from the socket
policy_step(bytes, waiting) ==
    IF bytes = POLICY_REQUEST
    THEN [kind |-> "policy", bytes |-> bytes, taken |-> 0, out |-> POLICY_FILE,
          shutdown |-> TRUE]
    ELSE IF starts_with(POLICY_REQUEST, bytes)
    THEN [kind |-> "continue", bytes |-> peek_max(waiting, Len(POLICY_REQUEST)),
          taken |-> 0, out |-> << >>, shutdown |-> FALSE]
    ELSE [kind |-> "stream", bytes |-> bytes, taken |-> 0, out |-> << >>,
          shutdown |-> FALSE]

(***************************************************************************)
(* State                                                                   *)
(***************************************************************************)

VARIABLES
    \* one codec driven by a socket
    f_codec,    \* the codec: recv_rc4, send_rc4
    f_net,      \* bytes the peer has sent that have not arrived yet
    f_buf,      \* the read buffer decode works on
    f_dst,      \* the write buffer encode appends to
    f_frames,   \* the frames decode has split off the read buffer, as received
    f_emitted,  \* the raw packets decode has yielded
    f_encoded,  \* the raw packets given to encode
    f_last,     \* the last decode call: its result and the header it read
    \* a complementary pair of codecs joined by a wire
    p_enc,      \* the encoding codec
    p_dec,      \* the decoding codec
    p_dst,      \* bytes encoded and not yet delivered
    p_buf,      \* the decoder's read buffer
    p_frames,   \* the bytes each encode call wrote
    p_sent,     \* the raw packets encoded, in order
    p_rcvd,     \* the raw packets decoded, in order
    p_failed,   \* whether a decode call panicked
    \* one lazy-decode handle
    a_auto,     \* the AutoPacket: raw, decoded
    a_decodes,  \* how many times RawPacket::to_packet has run for it
    a_warns,    \* how many warnings have been logged for it
    a_first,    \* the result of the first to_packet run
    a_calls,    \* how many get_any and downcast calls have been made
    a_last,     \* the last call: operation, type asked for, value returned
    \* one connection accepted by the listener
    h_in,       \* the bytes the client sends on it
    h_avail,    \* how many of them have arrived at the socket
    h_read,     \* how many of them have been taken off the socket
    h_bytes,    \* the loop state of handle_policy_request
    h_out,      \* the bytes written to the socket
    h_shut,     \* whether the socket has been shut down
    h_state,    \* "peeking", "policy" (handled as a policy request), "stream"
                \* (handed back as a game connection) or "framed" (yielded by
                \* the listener as a framed connection)
    h_fed,      \* the bytes the framed connection has read off the socket
    h_buf,      \* the read buffer of the framed connection
    h_codec,    \* its codec
    h_emitted,  \* the raw packets it has decoded
    \* one call of Mappings::new and the lookups on its result
    m_hex,      \* the hex key given, as character codes
    m_ids,      \* the wire-ID table given
    m_order,    \* the order in which the HashMap yields the table's entries
    m_res,      \* the result of Mappings::new
    m_ask,      \* the last lookup: the operation, the wire ID and the internal
                \* ID asked for or returned, and whether something was returned
    \* one value put to a sink and read back, or bytes given to get_be
    c_type,     \* the type of the field
    c_val,      \* the value put
    c_dst,      \* the bytes in the sink before the field is put
    c_tail,     \* the bytes that follow the field in the buffer read back
    c_put,      \* the result of put_be and the sink after it
    c_src,      \* the bytes given to get_be
    c_get,      \* the result of get_be and the bytes left in the buffer
    \* one pipe and the relays it runs for the connections of its listener
    r_phase,    \* "building" (the PipeBuilder) or "serving"
    r_plugins,  \* the plugin factories registered, in registration order
    r_conns,    \* how many connections the listener has yielded
    r_status,   \* relay -> "none", "connecting", "connected", "locked" (inside
                \* the statement that holds the plugin lock), "running", "done",
                \* "refused" (no server connection) or "failed"
    r_open,     \* relay -> side -> whether that endpoint is open
    r_lock,     \* the relays holding the plugin lock
    r_log,      \* the init_plugin calls made, in order: factory, relay, and
                \* whether the caller alone held the lock
    r_states,   \* relay -> its plugin state vector
    r_used,     \* which relay handed a packet to which plugin state
    \* one call of ServerList::new and the lookups on its result
    s_servers,  \* the map given: name -> IP
    s_order,    \* the order in which the HashMap yields its entries
    s_list,     \* the ServerList built: whether it is built, and its map
    s_ask,      \* the last lookup: the operation, the name, the value returned
    \* one call of Pic::get_be
    pic_usize,  \* the size of usize in the build, in bytes
    pic_checks, \* whether the build checks integer overflow
    pic_src,    \* the bytes given
    pic_res,    \* the result, and the bytes left in the buffer
    \* one typed message converted to a raw packet and back
    t_packet,   \* the message
    t_raw,      \* the result of RawPacket::from_packet
    t_back,     \* the result of RawPacket::to_packet on that raw packet
    \* the listener and the connections made to it
    l_conns,    \* the connections in the order they were made: input, avail, bytes, state
    l_taken,    \* how many of them incoming() has handed to the listener
    l_current,  \* the connection whose preamble and_then is waiting for, or 0
    l_yielded,  \* the connections client_listener has yielded, in order
    \* one relay
    codec,      \* side -> the codec of that side's connection
    net,        \* side -> the frames that peer sends that have not been read yet
    rd,         \* side -> the read buffer of that side's framed stream
    wr,         \* side -> the bytes written to that side's socket
    fused,      \* side -> whether that side's stream has yielded its end
    flag,       \* the flag of the merged stream (Select)
    queue,      \* the items of the current batch not yet sent to the sinks
    held,       \* side -> the items that side's with_flat_map holds for its
                \* framed sink (WithFlatMap's stream and buffer)
    down,       \* side -> the item the fanout holds for that side (Downstream's state)
    pressure,   \* whether the framed sinks of the relay can refuse an item
    status,     \* "connecting", "running", "done" (the future resolved Ok),
                \* "refused" (no server connection), "failed" (the future
                \* resolved with an error) or "panicked"
    n_plugins,  \* the number of plugins of the pipe
    inits,      \* the number of init_plugin calls made for this client
    faults,     \* whether the sockets of the relay can fail
    typing,     \* whether the plugins of the relay ask for typed packets
    sent,       \* side -> the raw packets that peer sends in this run
    junk,       \* side -> the malformed frame that peer ends its stream with
    seen,       \* one record per packet handed to the plugin chain, in order
    w_all       \* one record per packet encoded, in order

vars_frame == << f_codec, f_net, f_buf, f_dst, f_frames, f_emitted, f_encoded, f_last >>

vars_pair == << p_enc, p_dec, p_dst, p_buf, p_frames, p_sent, p_rcvd, p_failed >>

vars_auto == << a_auto, a_decodes, a_warns, a_first, a_calls, a_last >>

vars_pipe ==
    << codec, net, rd, wr, fused, flag, queue, held, down, pressure, status, n_plugins, inits,
       faults, typing, sent, junk, seen, w_all >>

vars_policy ==
    << h_in, h_avail, h_read, h_bytes, h_out, h_shut, h_state, h_fed, h_buf, h_codec,
       h_emitted >>

vars_mappings == << m_hex, m_ids, m_order, m_res, m_ask >>

vars_codec == << c_type, c_val, c_dst, c_tail, c_put, c_src, c_get >>

vars_relays ==
    << r_phase, r_plugins, r_conns, r_status, r_open, r_lock, r_log, r_states, r_used >>

vars_servers ==
    << s_servers, s_order, s_list, s_ask >>

vars_pic ==
    << pic_usize, pic_checks, pic_src, pic_res >>

vars_trip ==
    << t_packet, t_raw, t_back >>

vars_listen ==
    << l_conns, l_taken, l_current, l_yielded >>

vars ==
    << vars_frame, vars_pair, vars_auto, vars_pipe, vars_policy, vars_mappings, vars_codec,
      vars_relays, vars_servers, vars_pic, vars_trip, vars_listen >>

(***************************************************************************)
(* Bounds and sample inputs                                                *)
(***************************************************************************)

\* the most frames a peer sends to the single codec, and the most packets
\* encoded by it, in one run
MaxFrames == 2
MaxEncode == 2

\* the most packets sent over the pair in one run
MaxSent == 2

\* the most calls made on one handle
MaxCalls == 3

\* the relay: the most plugins, the most packets each peer sends, the most
\* packets one callback sends and the most sent by all callbacks of a run
MaxPlugins == 2
MaxClientIn == 2
MaxServerIn == 1
MaxPressureIn == 1
\* relays of one pipe and plugin factories registered with it
MaxRelays == 2
MaxFactories == 2
\* entries of the map given to ServerList::new
MaxServers == 3
\* bytes that follow the dimensions of a Pic
MaxBitmap == 8

\* connections made to the listener
MaxConns == 2
MaxExtra == 1
MaxInjected == 2

\* the most packets each peer sends in a relay whose plugins ask for typed
\* packets, and in a relay whose sockets can fail
MaxTypedIn == 1
MaxFaultyIn == 1

\* frames a peer can send: well-formed ones and ones whose header is below 5
FrameSamples ==
    { << 0, 0, 0, 5, 42 >>, << 0, 0, 0, 6, 5, 200 >>, << 0, 0, 0, 7, 9, 1, 254 >>,
      << 0, 0, 0, 4 >>, << 0, 0, 0, 0 >> }

\* typed messages a plugin can build
PacketSamples ==
    { [id |-> "GotoAck", fields |-> << 258 >>], [id |-> "Ping", fields |-> << 7 >>],
      [id |-> "Escape", fields |-> << >>] }

\* raw packets as decode yields them
DecodedSamples ==
    { RawPacket_new(<< 0, 0, 0, 9, 42, 0, 0, 1, 2 >>), RawPacket_new(<< 0, 0, 0, 6, 42, 1 >>),
      RawPacket_new(<< 0, 0, 0, 6, 5, 200 >>), RawPacket_new(<< 0, 0, 0, 5, 5 >>),
      RawPacket_new(<< 0, 0, 0, 9, 9, 0, 0, 0, 7 >>), RawPacket_new(<< 0, 0, 0, 6, 200, 13 >>) }

\* raw packets that can be given to encode: those from_packet builds and
\* those decode yields
RawSamples ==
    { from_packet(m).raw : m \in { x \in PacketSamples : from_packet(x).ok } }
    \cup { RawPacket_new(<< 0, 0, 0, 6, 200, 13 >>), RawPacket_new(<< 0, 0, 0, 5, 5 >>) }

\* the raw packets the game client and the game server send in a relay
ClientSamples ==
    { RawPacket_new(<< 0, 0, 0, 9, 42, 0, 0, 1, 2 >>), RawPacket_new(<< 0, 0, 0, 6, 5, 200 >>) }
ServerSamples == { RawPacket_new(<< 0, 0, 0, 9, 9, 0, 0, 0, 7 >>) }

\* the raw packets the peers send in a relay whose plugins ask for typed
\* packets: one that decodes, a GotoAck cut short, a wire ID that is not mapped
TypedSamples ==
    { RawPacket_new(<< 0, 0, 0, 9, 42, 0, 0, 1, 2 >>), RawPacket_new(<< 0, 0, 0, 6, 42, 1 >>),
      RawPacket_new(<< 0, 0, 0, 6, 200, 13 >>) }

RECURSIVE SeqsUpTo(_, _)
\* the sequences over S of length at most n
SeqsUpTo(S, n) ==
    IF n = 0 THEN { << >> }
    ELSE LET shorter == SeqsUpTo(S, n - 1)
         IN  shorter \cup { Append(q, x) : q \in { r \in shorter : Len(r) = n - 1 }, x \in S }

(***************************************************************************)
(* One codec driven by a socket: bytes arrive in chunks into the read      *)
(* buffer, decode is called on it, and raw packets are encoded into the    *)
(* write buffer.                                                           *)
(***************************************************************************)

InitFrame ==
    /\ f_codec \in { Codec_new_client, Codec_new_server }
    /\ f_net \in { Concat(q) : q \in SeqsUpTo(FrameSamples, MaxFrames) }
    /\ f_buf = << >>
    /\ f_dst = << >>
    /\ f_frames = << >>
    /\ f_emitted = << >>
    /\ f_encoded = << >>
    /\ f_last = [kind |-> "none", size |-> -1, split |-> FALSE]

\* the frame variables of a run that does not use them
FrameOff ==
    /\ f_codec = Codec_new_client
    /\ f_net = << >>
    /\ f_buf = << >>
    /\ f_dst = << >>
    /\ f_frames = << >>
    /\ f_emitted = << >>
    /\ f_encoded = << >>
    /\ f_last = [kind |-> "none", size |-> -1, split |-> FALSE]

\* the socket delivers the next k bytes into the read buffer
FrameFeed ==
    /\ f_last.kind # "panic"
    /\ \E k \in 1..Len(f_net) :
        /\ f_buf' = f_buf \o SliceTo(f_net, k)
        /\ f_net' = SliceFrom(f_net, k)
    /\ UNCHANGED << f_codec, f_dst, f_frames, f_emitted, f_encoded, f_last >>
    /\ UNCHANGED << vars_pair, vars_auto, vars_pipe, vars_policy, vars_mappings, vars_codec,
                   vars_relays, vars_servers, vars_pic, vars_trip, vars_listen >>

\* the framed reader calls decode on the read buffer
FrameDecode ==
    /\ f_last.kind # "panic"
    /\ \E debug \in BOOLEAN :
        LET r == decode(f_codec, f_buf, debug)
            size == IF Len(f_buf) < 4 THEN -1 ELSE get_u32_be(f_buf)
        IN  /\ f_codec' = r.codec
            /\ f_buf' = r.buf
            /\ f_last' = [kind |-> r.kind, size |-> size,
                          split |-> f_last.split \/ (r.kind = "need_more" /\ f_buf # << >>)]
            /\ IF r.kind = "packet"
               THEN /\ f_emitted' = Append(f_emitted, r.raw)
                    /\ f_frames' = Append(f_frames, SliceTo(f_buf, size))
               ELSE UNCHANGED << f_emitted, f_frames >>
    /\ UNCHANGED << f_net, f_dst, f_encoded >>
    /\ UNCHANGED << vars_pair, vars_auto, vars_pipe, vars_policy, vars_mappings, vars_codec,
                   vars_relays, vars_servers, vars_pic, vars_trip, vars_listen >>

\* the framed writer calls encode with a raw packet
FrameEncode ==
    /\ f_last.kind # "panic"
    /\ Len(f_encoded) < MaxEncode
    /\ \E raw \in RawSamples :
        LET e == encode(f_codec, raw, f_dst)
        IN  /\ f_codec' = e.codec
            /\ f_dst' = e.dst
            /\ f_encoded' = Append(f_encoded, raw)
    /\ UNCHANGED << f_net, f_buf, f_frames, f_emitted, f_last >>
    /\ UNCHANGED << vars_pair, vars_auto, vars_pipe, vars_policy, vars_mappings, vars_codec,
                   vars_relays, vars_servers, vars_pic, vars_trip, vars_listen >>

(***************************************************************************)
(* A complementary pair: one codec encodes raw packets onto a wire, the    *)
(* codec of the other kind decodes them.                                   *)
(***************************************************************************)

InitPair ==
    /\ \E pair \in { << Codec_new_client, Codec_new_server >>,
                     << Codec_new_server, Codec_new_client >> } :
        /\ p_enc = pair[1]
        /\ p_dec = pair[2]
    /\ p_dst = << >>
    /\ p_buf = << >>
    /\ p_frames = << >>
    /\ p_sent = << >>
    /\ p_rcvd = << >>
    /\ p_failed = FALSE

PairOff ==
    /\ p_enc = Codec_new_client
    /\ p_dec = Codec_new_server
    /\ p_dst = << >>
    /\ p_buf = << >>
    /\ p_frames = << >>
    /\ p_sent = << >>
    /\ p_rcvd = << >>
    /\ p_failed = FALSE

\* the sender encodes the next raw packet
PairEncode ==
    /\ Len(p_sent) < MaxSent
    /\ \E raw \in RawSamples \cup DecodedSamples :
        LET e == encode(p_enc, raw, p_dst)
        IN  /\ p_enc' = e.codec
            /\ p_dst' = e.dst
            /\ p_frames' = Append(p_frames, SliceFrom(e.dst, Len(p_dst)))
            /\ p_sent' = Append(p_sent, raw)
    /\ UNCHANGED << p_dec, p_buf, p_rcvd, p_failed >>
    /\ UNCHANGED << vars_frame, vars_auto, vars_pipe, vars_policy, vars_mappings, vars_codec,
                   vars_relays, vars_servers, vars_pic, vars_trip, vars_listen >>

\* the wire delivers the next k bytes to the receiver
PairDeliver ==
    /\ \E k \in 1..Len(p_dst) :
        /\ p_buf' = p_buf \o SliceTo(p_dst, k)
        /\ p_dst' = SliceFrom(p_dst, k)
    /\ UNCHANGED << p_enc, p_dec, p_frames, p_sent, p_rcvd, p_failed >>
    /\ UNCHANGED << vars_frame, vars_auto, vars_pipe, vars_policy, vars_mappings, vars_codec,
                   vars_relays, vars_servers, vars_pic, vars_trip, vars_listen >>

\* the receiver calls decode on its read buffer
PairDecode ==
    /\ ~p_failed
    /\ \E debug \in BOOLEAN :
        LET r == decode(p_dec, p_buf, debug)
        IN  /\ p_dec' = r.codec
            /\ p_buf' = r.buf
            /\ p_failed' = (r.kind = "panic")
            /\ p_rcvd' = IF r.kind = "packet" THEN Append(p_rcvd, r.raw) ELSE p_rcvd
    /\ UNCHANGED << p_enc, p_dst, p_frames, p_sent >>
    /\ UNCHANGED << vars_frame, vars_auto, vars_pipe, vars_policy, vars_mappings, vars_codec,
                   vars_relays, vars_servers, vars_pic, vars_trip, vars_listen >>

(***************************************************************************)
(* One handle, on which plugins call get_any and downcast                  *)
(***************************************************************************)

NoCall == [op |-> "none", T |-> "none", ret |-> None, decodes |-> 0]

InitAuto ==
    /\ a_auto \in { AutoPacket_new(raw) : raw \in DecodedSamples }
    /\ a_decodes = 0
    /\ a_warns = 0
    /\ a_first = None
    /\ a_calls = 0
    /\ a_last = NoCall

AutoOff ==
    /\ a_auto = AutoPacket_new(RawPacket_new(<< 0, 0, 0, 5, 5 >>))
    /\ a_decodes = 0
    /\ a_warns = 0
    /\ a_first = None
    /\ a_calls = 0
    /\ a_last = NoCall

\* what a call leaves behind: r is the operation's result
AfterCall(op, T, r) ==
    /\ a_auto' = r.auto
    /\ a_decodes' = a_decodes + r.decodes
    /\ a_warns' = a_warns + r.warns
    /\ a_first' = IF a_decodes = 0 /\ r.decodes > 0 THEN r.auto.decoded ELSE a_first
    /\ a_calls' = a_calls + 1
    /\ a_last' = [op |-> op, T |-> T, ret |-> r.ret, decodes |-> r.decodes]

\* a plugin calls get_any
AutoGetAny ==
    /\ a_calls < MaxCalls
    /\ AfterCall("get_any", "none", get_any(a_auto))
    /\ UNCHANGED << vars_frame, vars_pair, vars_pipe, vars_policy, vars_mappings, vars_codec,
                   vars_relays, vars_servers, vars_pic, vars_trip, vars_listen >>

\* a plugin calls downcast::<T>
AutoDowncast ==
    /\ a_calls < MaxCalls
    /\ \E T \in InternalPacketId : AfterCall("downcast", T, downcast(a_auto, T))
    /\ UNCHANGED << vars_frame, vars_pair, vars_pipe, vars_policy, vars_mappings, vars_codec,
                   vars_relays, vars_servers, vars_pic, vars_trip, vars_listen >>

(***************************************************************************)
(* One relay: the two framed connections, the merged inbound stream, the   *)
(* plugin chain and the two filtered sinks.                                *)
(***************************************************************************)

\* the codec the peer at that side of the relay uses: the game client's is the
\* complement of the relay's client codec, the game server's that of the
\* relay's server codec
PeerCodec(side) == IF side = "Client" THEN Codec_new_server ELSE Codec_new_client

RECURSIVE PeerFrames(_, _)
\* the frames a peer writes for the raw packets it sends
PeerFrames(peer, raws) ==
    IF raws = << >> THEN << >>
    ELSE LET e == encode(peer, Head(raws), << >>)
         IN  << e.dst >> \o PeerFrames(e.codec, Tail(raws))

\* the state once client_listener has yielded the client connection and
\* accept_client is called with it
InitPipe ==
    /\ codec = [s \in PacketSide |->
                  IF s = "Client" THEN Codec_new_client ELSE Codec_new_server]
    /\ sent \in { [s \in PacketSide |-> IF s = "Client" THEN c ELSE v] :
                    c \in SeqsUpTo(ClientSamples, MaxClientIn),
                    v \in SeqsUpTo(ServerSamples, MaxServerIn) }
    /\ junk = [s \in PacketSide |-> << >>]
    /\ net = [s \in PacketSide |-> PeerFrames(PeerCodec(s), sent[s])]
    /\ rd = [s \in PacketSide |-> << >>]
    /\ wr = [s \in PacketSide |-> << >>]
    /\ fused = [s \in PacketSide |-> FALSE]
    /\ flag = FALSE
    /\ queue = << >>
    /\ status = "connecting"
    /\ n_plugins \in 0..MaxPlugins
    /\ inits = 0
    /\ faults = FALSE
    /\ typing = FALSE
    /\ seen = << >>
    /\ w_all = << >>
    /\ held = [s \in PacketSide |-> << >>]
    /\ down = [s \in PacketSide |-> << >>]
    /\ pressure = FALSE

\* the same for a relay whose framed sinks may be over their backpressure
\* boundary when asked to take an item
InitPressure ==
    /\ codec = [s \in PacketSide |->
                  IF s = "Client" THEN Codec_new_client ELSE Codec_new_server]
    /\ sent \in { [s \in PacketSide |-> IF s = "Client" THEN c ELSE v] :
                    c \in SeqsUpTo(ClientSamples, MaxPressureIn),
                    v \in SeqsUpTo(ServerSamples, MaxPressureIn) }
    /\ junk = [s \in PacketSide |-> << >>]
    /\ net = [s \in PacketSide |-> PeerFrames(PeerCodec(s), sent[s])]
    /\ rd = [s \in PacketSide |-> << >>]
    /\ wr = [s \in PacketSide |-> << >>]
    /\ fused = [s \in PacketSide |-> FALSE]
    /\ flag = FALSE
    /\ queue = << >>
    /\ status = "connecting"
    /\ n_plugins = 0
    /\ inits = 0
    /\ faults = FALSE
    /\ typing = FALSE
    /\ seen = << >>
    /\ w_all = << >>
    /\ held = [s \in PacketSide |-> << >>]
    /\ down = [s \in PacketSide |-> << >>]
    /\ pressure = TRUE

\* what a peer may send after its packets: nothing, a frame whose header is
\* below 5, or a frame cut short
JunkSamples == { << >>, << << 0, 0, 0, 4 >> >>, << << 0, 0, 0, 9, 42 >> >> }

\* the same for a relay whose sockets can fail and whose peers may end their
\* streams with a malformed frame
InitFaulty ==
    /\ codec = [s \in PacketSide |->
                  IF s = "Client" THEN Codec_new_client ELSE Codec_new_server]
    /\ sent \in { [s \in PacketSide |-> IF s = "Client" THEN c ELSE v] :
                    c \in SeqsUpTo(ClientSamples, MaxFaultyIn),
                    v \in SeqsUpTo(ServerSamples, MaxFaultyIn) }
    /\ junk \in [PacketSide -> JunkSamples]
    /\ net = [s \in PacketSide |-> PeerFrames(PeerCodec(s), sent[s]) \o junk[s]]
    /\ rd = [s \in PacketSide |-> << >>]
    /\ wr = [s \in PacketSide |-> << >>]
    /\ fused = [s \in PacketSide |-> FALSE]
    /\ flag = FALSE
    /\ queue = << >>
    /\ status = "connecting"
    /\ n_plugins = 1
    /\ inits = 0
    /\ faults = TRUE
    /\ typing = FALSE
    /\ seen = << >>
    /\ w_all = << >>
    /\ held = [s \in PacketSide |-> << >>]
    /\ down = [s \in PacketSide |-> << >>]
    /\ pressure = FALSE

\* the same for a relay whose plugins ask for typed packets
InitTyped ==
    /\ codec = [s \in PacketSide |->
                  IF s = "Client" THEN Codec_new_client ELSE Codec_new_server]
    /\ sent \in [PacketSide -> SeqsUpTo(TypedSamples, MaxTypedIn)]
    /\ junk = [s \in PacketSide |-> << >>]
    /\ net = [s \in PacketSide |-> PeerFrames(PeerCodec(s), sent[s])]
    /\ rd = [s \in PacketSide |-> << >>]
    /\ wr = [s \in PacketSide |-> << >>]
    /\ fused = [s \in PacketSide |-> FALSE]
    /\ flag = FALSE
    /\ queue = << >>
    /\ status = "connecting"
    /\ n_plugins \in 1..MaxPlugins
    /\ inits = 0
    /\ faults = FALSE
    /\ typing = TRUE
    /\ seen = << >>
    /\ w_all = << >>
    /\ held = [s \in PacketSide |-> << >>]
    /\ down = [s \in PacketSide |-> << >>]
    /\ pressure = FALSE

PipeOff ==
    /\ codec = [s \in PacketSide |->
                  IF s = "Client" THEN Codec_new_client ELSE Codec_new_server]
    /\ sent = [s \in PacketSide |-> << >>]
    /\ junk = [s \in PacketSide |-> << >>]
    /\ net = [s \in PacketSide |-> << >>]
    /\ rd = [s \in PacketSide |-> << >>]
    /\ wr = [s \in PacketSide |-> << >>]
    /\ fused = [s \in PacketSide |-> FALSE]
    /\ flag = FALSE
    /\ queue = << >>
    /\ status = "connecting"
    /\ n_plugins = 0
    /\ inits = 0
    /\ faults = FALSE
    /\ typing = FALSE
    /\ seen = << >>
    /\ w_all = << >>
    /\ held = [s \in PacketSide |-> << >>]
    /\ down = [s \in PacketSide |-> << >>]
    /\ pressure = FALSE

\* what a socket can have for one poll of its stream: "ready", the next
\* frame the peer sent or, when the peer has sent everything, the end of the
\* stream; "wait", nothing new; "error", a failed read
SocketIo == IF faults THEN { "ready", "wait", "error" } ELSE { "ready", "wait" }

\* the poll of one side's framed stream (Framed<TcpStream, Codec>), the socket
\* having io for it.  The poll yields an item when decode yields a packet, the
\* end when the socket is at its end and the read buffer is empty, an error
\* when the read fails or the socket is at its end on a partial frame
stream_poll(side, io, debug) ==
    LET arrived == io = "ready" /\ net[side] # << >>
        eof == io = "ready" /\ net[side] = << >>
        buf == IF arrived THEN rd[side] \o Head(net[side]) ELSE rd[side]
        left == IF arrived THEN Tail(net[side]) ELSE net[side]
        r == decode(codec[side], buf, debug)
    IN  IF fused[side] THEN [kind |-> "end", r |-> r, net |-> net[side]]
        ELSE IF r.kind = "packet" THEN [kind |-> "item", r |-> r, net |-> left]
        ELSE IF r.kind = "panic" THEN [kind |-> "panic", r |-> r, net |-> left]
        ELSE IF io = "error" THEN [kind |-> "error", r |-> r, net |-> left]
        ELSE IF eof
             THEN [kind |-> IF buf = << >> THEN "end" ELSE "error", r |-> r, net |-> left]
             ELSE [kind |-> "not_ready", r |-> r, net |-> left]

\* the packets sent so far by all callbacks of the run
Injected == SumLen([i \in 1..Len(seen) |-> seen[i].sent])

\* what the plugins of the chain may do in the callbacks for one packet: each
\* may cancel the packet, and either asks for the typed packet (in a relay
\* whose plugins do) or sends packets
PluginActs ==
    { acts \in [1..n_plugins ->
                  [typed : IF typing THEN BOOLEAN ELSE { FALSE }, cancel : BOOLEAN,
                   extra : SeqsUpTo(PacketSamples, IF typing THEN 0 ELSE MaxExtra)]] :
        Injected + SumLen([i \in 1..n_plugins |-> acts[i].extra]) <= MaxInjected }

\* the record of a packet handed to the chain: what the plugins did (acts),
\* the callbacks that ran and what they left (chain), the length of its batch;
\* which plugins cancelled and which asked for the typed packet is kept for
\* the relays whose plugins ask for typed packets; pending counts the items of
\* earlier batches the sinks still hold when the chain runs
Round(side, raw, acts, chain, len) ==
    [side |-> side, raw |-> raw,
     cancel_called |-> \E i \in 1..Len(acts) : acts[i].cancel,
     cancels |-> IF typing THEN [i \in 1..Len(acts) |-> acts[i].cancel] ELSE << >>,
     sent |-> Concat([i \in 1..Len(acts) |-> acts[i].extra]),
     typed |-> IF typing THEN [i \in 1..Len(acts) |-> acts[i].typed] ELSE << >>,
     calls |-> chain.calls, decodes |-> chain.decodes, warns |-> chain.warns,
     ctx |-> chain.ctx, len |-> len,
     pending |-> Len(held["Client"]) + Len(down["Client"])
                 + Len(held["Server"]) + Len(down["Server"])]

\* the chain run again for every packet of the batch
AfterChain_per_item(side, raw, acts, chain) ==
    /\ queue' = build_queue(side, chain.auto, chain.ctx)
    /\ seen' = seen \o [k \in 1..Len(build_queue(side, chain.auto, chain.ctx)) |->
                          Round(side, raw, acts, chain,
                                Len(build_queue(side, chain.auto, chain.ctx)))]

\* what the closure leaves once the chain has run: the queue it builds, and the
\* record of the packet
AfterChain(side, raw, acts, chain) ==
    /\ queue' = build_queue(side, chain.auto, chain.ctx)
    /\ seen' = Append(seen, Round(side, raw, acts, chain,
                                  Len(build_queue(side, chain.auto, chain.ctx))))

\* the closure mapped over the merged stream, for the packet (side, raw): the
\* handle, a fresh context, the callbacks, the queue
ProcessPacket(side, raw, acts) ==
    AfterChain(side, raw, acts,
               for_each_plugin(ChainStart(AutoPacket_new(raw), PacketContext_default), acts))

\* whether the framed sinks take an item when asked
SinkReady == IF pressure THEN BOOLEAN ELSE { TRUE }

\* the sink of one side as the relay has it
SinkOf(to) ==
    [codec |-> codec[to], dst |-> wr[to], held |-> held[to], down |-> down[to], out |-> << >>]

\* the sinks after a poll: C the client's, S the server's
SinksBecome(C, S) ==
    /\ codec' = [x \in PacketSide |-> IF x = "Client" THEN C.codec ELSE S.codec]
    /\ wr' = [x \in PacketSide |-> IF x = "Client" THEN C.dst ELSE S.dst]
    /\ held' = [x \in PacketSide |-> IF x = "Client" THEN C.held ELSE S.held]
    /\ down' = [x \in PacketSide |-> IF x = "Client" THEN C.down ELSE S.down]
    /\ w_all' = w_all \o C.out \o S.out

\* Forward::poll finding no packet ready (poll_complete) or the merged stream
\* ended (close): the sinks C and S flush what they hold, and the relay
\* completes when the stream has ended and nothing is held any more
AfterIdlePoll(C, S, ended) ==
    /\ SinksBecome(C, S)
    /\ status' = IF ended /\ C.held = << >> /\ C.down = << >> /\ S.held = << >> /\ S.down = << >>
                 THEN "done" ELSE status

\* what a poll of the merged stream leaves behind.  a and b are the polls of
\* the stream polled first and of the other one, which is polled only when the
\* first yields no item; rc and rs tell whether the framed sinks are ready
AfterPoll(first, a, b, rc, rs) ==
    LET second == Opposite(first)
        both == a.kind # "item"
        sel == select_poll(flag, a.kind, b.kind)
        side == IF sel.take = "first" THEN first ELSE second
        p == IF sel.take = "first" THEN a ELSE b
    IN  IF a.kind \in {"error", "panic"}
        THEN /\ status' = IF a.kind = "panic" THEN "panicked" ELSE "failed"
             /\ net' = [net EXCEPT ![first] = a.net]
             /\ rd' = [rd EXCEPT ![first] = a.r.buf]
             /\ UNCHANGED << codec, fused, flag, queue, seen, wr, w_all, held, down >>
        ELSE IF both /\ b.kind \in {"error", "panic"}
        THEN /\ status' = IF b.kind = "panic" THEN "panicked" ELSE "failed"
             /\ net' = [s \in PacketSide |-> IF s = first THEN a.net ELSE b.net]
             /\ rd' = [s \in PacketSide |-> IF s = first THEN a.r.buf ELSE b.r.buf]
             /\ fused' = [fused EXCEPT ![first] = @ \/ a.kind = "end"]
             /\ UNCHANGED << codec, flag, queue, seen, wr, w_all, held, down >>
        ELSE /\ flag' = sel.flag
             /\ fused' = [s \in PacketSide |->
                            \/ fused[s]
                            \/ (s = first /\ a.kind = "end")
                            \/ (s = second /\ both /\ b.kind = "end")]
             /\ net' = [s \in PacketSide |->
                          IF s = first THEN a.net ELSE IF both THEN b.net ELSE net[s]]
             /\ rd' = [s \in PacketSide |->
                         IF s = first THEN a.r.buf ELSE IF both THEN b.r.buf ELSE rd[s]]
             /\ IF sel.take = "none"
                THEN /\ AfterIdlePoll(sink_flush(SinkOf("Client"), "Client", rc),
                                      sink_flush(SinkOf("Server"), "Server", rs), sel.ended)
                     /\ UNCHANGED << queue, seen >>
                ELSE /\ codec' = [codec EXCEPT ![side] = p.r.codec]
                     /\ \E acts \in PluginActs : ProcessPacket(side, p.r.raw, acts)
                     /\ UNCHANGED << status, wr, w_all, held, down >>

\* the forwarder polls the merged stream: the next packet of one side is
\* decoded and goes through the plugin chain, or nothing is ready, or both
\* streams have ended and the relay completes
Poll ==
    /\ status = "running"
    /\ queue = << >>
    /\ \E debug \in BOOLEAN, ra \in SocketIo, rc \in SinkReady, rs \in SinkReady :
        LET first == IF flag THEN "Server" ELSE "Client"
            a == stream_poll(first, ra, debug)
        IN  IF a.kind \in {"item", "error", "panic"}
            THEN AfterPoll(first, a, a, rc, rs)
            ELSE \E rb \in SocketIo :
                    AfterPoll(first, a, stream_poll(Opposite(first), rb, debug), rc, rs)
    /\ UNCHANGED << pressure, n_plugins, inits, faults, typing, sent, junk >>
    /\ UNCHANGED << vars_frame, vars_pair, vars_auto, vars_policy, vars_mappings, vars_codec,
                   vars_relays, vars_servers, vars_pic, vars_trip, vars_listen >>

\* the forwarder sends the next item of the batch to the fanout of the two
\* sinks and a write to a socket fails
ForwardFails ==
    /\ status' = "failed"
    /\ UNCHANGED << codec, wr, w_all, queue, held, down >>

\* what Fanout::start_send leaves: the sinks, and the item off the batch when
\* the fanout took it
AfterSend(r) ==
    /\ SinksBecome(r.C, r.S)
    /\ queue' = IF r.accepted THEN Tail(queue) ELSE queue
    /\ UNCHANGED status

\* the forwarder sends the next item of the batch to the fanout of the two
\* sinks: each sink's filter decides whether its codec encodes the packet
ForwardItem(rc, rs) ==
    AfterSend(fanout_start_send(SinkOf("Client"), SinkOf("Server"), rc, rs,
                                [item |-> Head(queue), batch |-> Len(seen),
                                 slot |-> seen[Len(seen)].len - Len(queue) + 1]))

\* Forward::poll with an item of the current batch in hand
Forward ==
    /\ status = "running"
    /\ queue # << >>
    /\ \E ok \in IF faults THEN BOOLEAN ELSE { TRUE }, rc \in SinkReady, rs \in SinkReady :
        IF ok THEN ForwardItem(rc, rs) ELSE ForwardFails
    /\ UNCHANGED << net, rd, fused, flag, pressure, n_plugins, inits, faults, typing, sent,
                    junk, seen >>
    /\ UNCHANGED << vars_frame, vars_pair, vars_auto, vars_policy, vars_mappings, vars_codec,
                   vars_relays, vars_servers, vars_pic, vars_trip, vars_listen >>

\* server_connection failing after the plugins were initialised
Connect_after_init ==
    /\ status = "connecting"
    /\ inits' = n_plugins
    /\ \E ok \in BOOLEAN : status' = IF ok THEN "running" ELSE "refused"
    /\ UNCHANGED << codec, net, rd, wr, fused, flag, queue, held, down, pressure, n_plugins,
                    faults, typing, sent, junk, seen, w_all >>
    /\ UNCHANGED << vars_frame, vars_pair, vars_auto, vars_policy, vars_mappings, vars_codec,
                   vars_relays, vars_servers, vars_pic, vars_trip, vars_listen >>

\* accept_client's first step: server_connection resolves, and on success the
\* and_then closure creates one plugin state per plugin; on failure the
\* future resolves with the error
Connect ==
    /\ status = "connecting"
    /\ \E ok \in BOOLEAN :
        /\ status' = IF ok THEN "running" ELSE "refused"
        /\ inits' = IF ok THEN n_plugins ELSE 0
    /\ UNCHANGED << codec, net, rd, wr, fused, flag, queue, held, down, pressure, n_plugins,
                    faults, typing, sent, junk, seen, w_all >>
    /\ UNCHANGED << vars_frame, vars_pair, vars_auto, vars_policy, vars_mappings, vars_codec,
                   vars_relays, vars_servers, vars_pic, vars_trip, vars_listen >>

(***************************************************************************)
(* One accepted connection: the policy preamble, then the framed           *)
(* connection the listener yields (proxy/mod.rs, client_listener).         *)
(***************************************************************************)

\* what a client may send on a new connection: the policy request, the request
\* followed by more, only the start of the request, game frames, and bytes
\* that start like the request and then differ
PolicySamples ==
    { POLICY_REQUEST, POLICY_REQUEST \o << 7 >>, SliceTo(POLICY_REQUEST, 5),
      << 0, 0, 0, 6, 5, 200 >>, << 0, 0, 0, 5, 42, 0, 0, 0, 6, 5, 200 >>,
      << 60, 112, 0, 9, 1 >> }

InitPolicy ==
    /\ h_in \in PolicySamples
    /\ h_avail = 0
    /\ h_read = 0
    /\ h_bytes = << >>
    /\ h_out = << >>
    /\ h_shut = FALSE
    /\ h_state = "peeking"
    /\ h_fed = << >>
    /\ h_buf = << >>
    /\ h_codec = Codec_new_client
    /\ h_emitted = << >>

PolicyOff ==
    /\ h_in = << >>
    /\ h_avail = 0
    /\ h_read = 0
    /\ h_bytes = << >>
    /\ h_out = << >>
    /\ h_shut = FALSE
    /\ h_state = "peeking"
    /\ h_fed = << >>
    /\ h_buf = << >>
    /\ h_codec = Codec_new_client
    /\ h_emitted = << >>

\* the bytes waiting on the socket
Waiting == SubSeq(h_in, h_read + 1, h_avail)

\* more of the client's bytes arrive at the socket
PolicyArrive ==
    /\ h_avail < Len(h_in)
    /\ \E k \in (h_avail + 1)..Len(h_in) : h_avail' = k
    /\ UNCHANGED << h_in, h_read, h_bytes, h_out, h_shut, h_state, h_fed, h_buf, h_codec,
                    h_emitted >>
    /\ UNCHANGED << vars_frame, vars_pair, vars_auto, vars_pipe, vars_mappings, vars_codec,
                   vars_relays, vars_servers, vars_pic, vars_trip, vars_listen >>

\* what one turn of the loop leaves
AfterPolicyStep(r) ==
    /\ h_state' = IF r.kind = "continue" THEN "peeking" ELSE r.kind
    /\ h_bytes' = r.bytes
    /\ h_read' = h_read + r.taken
    /\ h_out' = h_out \o r.out
    /\ h_shut' = r.shutdown

\* one turn of handle_policy_request's loop; a peek completes when bytes are
\* waiting on the socket
PolicyStep ==
    /\ h_state = "peeking"
    /\ policy_step(h_bytes, Waiting).kind = "continue" => Waiting # << >>
    /\ AfterPolicyStep(policy_step(h_bytes, Waiting))
    /\ UNCHANGED << h_in, h_avail, h_fed, h_buf, h_codec, h_emitted >>
    /\ UNCHANGED << vars_frame, vars_pair, vars_auto, vars_pipe, vars_mappings, vars_codec,
                   vars_relays, vars_servers, vars_pic, vars_trip, vars_listen >>

\* client_listener: filter_map(identity) lets the stream handed back through
\* and map wraps it with a client-side codec
PolicyFramed ==
    /\ h_state = "stream"
    /\ h_state' = "framed"
    /\ h_codec' = Codec_new_client
    /\ UNCHANGED << h_in, h_avail, h_read, h_bytes, h_out, h_shut, h_fed, h_buf, h_emitted >>
    /\ UNCHANGED << vars_frame, vars_pair, vars_auto, vars_pipe, vars_mappings, vars_codec,
                   vars_relays, vars_servers, vars_pic, vars_trip, vars_listen >>

\* what a poll of the framed connection leaves: got are the bytes read off the
\* socket, r the result of decode on the read buffer with them
AfterPolicyRead(got, r) ==
    /\ h_fed' = h_fed \o got
    /\ h_read' = h_read + Len(got)
    /\ h_buf' = r.buf
    /\ h_codec' = r.codec
    /\ h_emitted' = IF r.kind = "packet" THEN Append(h_emitted, r.raw) ELSE h_emitted

\* the framed connection is polled: it reads what is waiting on the socket
\* and decodes
PolicyRead ==
    /\ h_state = "framed"
    /\ Waiting # << >> \/ Len(h_buf) >= 4
    /\ decode(h_codec, h_buf \o Waiting, FALSE).kind # "panic"
    /\ AfterPolicyRead(Waiting, decode(h_codec, h_buf \o Waiting, FALSE))
    /\ UNCHANGED << h_in, h_avail, h_bytes, h_out, h_shut, h_state >>
    /\ UNCHANGED << vars_frame, vars_pair, vars_auto, vars_pipe, vars_mappings, vars_codec,
                   vars_relays, vars_servers, vars_pic, vars_trip, vars_listen >>

(***************************************************************************)
(* One call of Mappings::new, then lookups on the value it returned.       *)
(***************************************************************************)

RECURSIVE HexOf(_)
\* the lower-case hex string of a byte sequence, as character codes
HexOf(bytes) ==
    IF bytes = << >> THEN << >>
    ELSE LET d(n) == IF n < 10 THEN 48 + n ELSE 87 + n
         IN  << d(Head(bytes) \div 16), d(Head(bytes) % 16) >> \o HexOf(Tail(bytes))

\* hex keys a caller may give: 26 bytes, 26 bytes with an upper-case digit,
\* 25 and 27 bytes, an odd number of digits, a character that is no hex
\* digit, and the empty string
HexSamples ==
    { HexOf(binary_rc4), << 65, 66 >> \o HexOf(Tail(binary_rc4)),
      HexOf(Tail(binary_rc4)), HexOf(<< 1 >> \o binary_rc4),
      Tail(HexOf(binary_rc4)), << 103 >> \o Tail(HexOf(binary_rc4)), << >> }

\* the wire IDs and the internal IDs of the tables a caller may give
WireSamples == { 5, 9, 42 }
IdSamples == { "GotoAck", "Ping", "CancelTrade" }

\* every order of the elements of a set
Perms(S) == { p \in [1..Cardinality(S) -> S] : \A a \in S : \E k \in DOMAIN p : p[k] = a }

NoLookup == [op |-> "none", w |-> 0, i |-> "none", some |-> FALSE]

InitMappings ==
    /\ m_hex \in HexSamples
    /\ m_ids \in UNION { [D -> IdSamples] : D \in SUBSET WireSamples }
    /\ m_order \in Perms(DOMAIN m_ids)
    /\ m_res = [ok |-> FALSE, err |-> "uncalled", v |-> NoMappings]
    /\ m_ask = NoLookup

MappingsOff ==
    /\ m_hex = << >>
    /\ m_ids = << >>
    /\ m_order = << >>
    /\ m_res = [ok |-> FALSE, err |-> "uncalled", v |-> NoMappings]
    /\ m_ask = NoLookup

\* the caller constructs the mappings
MappingsNew ==
    /\ m_res.err = "uncalled"
    /\ m_res' = Mappings_new(m_hex, m_ids, m_order)
    /\ UNCHANGED << m_hex, m_ids, m_order, m_ask >>
    /\ UNCHANGED << vars_frame, vars_pair, vars_auto, vars_pipe, vars_policy, vars_codec,
                   vars_relays, vars_servers, vars_pic, vars_trip, vars_listen >>

\* a wire ID is looked up in the constructed mappings
MappingsGetInternalId ==
    /\ m_res.ok
    /\ \E w \in WireSamples \cup { 200 } :
        m_ask' = [op |-> "get_internal_id", w |-> w,
                  i |-> Mappings_get_internal_id(m_res.v, w).v,
                  some |-> Mappings_get_internal_id(m_res.v, w).some]
    /\ UNCHANGED << m_hex, m_ids, m_order, m_res >>
    /\ UNCHANGED << vars_frame, vars_pair, vars_auto, vars_pipe, vars_policy, vars_codec,
                   vars_relays, vars_servers, vars_pic, vars_trip, vars_listen >>

\* an internal ID is looked up in the constructed mappings
MappingsGetGameId ==
    /\ m_res.ok
    /\ \E i \in InternalPacketId :
        m_ask' = [op |-> "get_game_id", i |-> i,
                  w |-> Mappings_get_game_id(m_res.v, i).v,
                  some |-> Mappings_get_game_id(m_res.v, i).some]
    /\ UNCHANGED << m_hex, m_ids, m_order, m_res >>
    /\ UNCHANGED << vars_frame, vars_pair, vars_auto, vars_pipe, vars_policy, vars_codec,
                   vars_relays, vars_servers, vars_pic, vars_trip, vars_listen >>

(***************************************************************************)
(* One field: a value is put to a sink and read back, or bytes are given   *)
(* to get_be.                                                              *)
(***************************************************************************)

\* the types of the fields
FieldTypes ==
    { [k |-> "prim", S |-> "none", T |-> T] : T \in {"u8", "u16", "u32", "bool", "i8"} }
    \cup { [k |-> "vec", S |-> S, T |-> T] : S \in {"u8", "u16", "i8"}, T \in {"u8", "u16", "bool"} }
    \cup { [k |-> "string", S |-> S, T |-> "u8"] : S \in {"u8", "u16"} }
    \cup { [k |-> "option", S |-> "none", T |-> T] : T \in {"u8", "u16"} }

\* values of a primitive
PrimSamples(T) ==
    CASE T = "u8" -> { 0, 5, 255 }
      [] T = "u16" -> { 0, 300, 65535 }
      [] T = "u32" -> { 0, 258, 2147483647 }
      [] T = "i8" -> { -128, -1, 0, 127 }
      [] T = "bool" -> BOOLEAN

\* the elements 0, 1, 2, ... of a sequence of n elements of a primitive, as
\* (0..n).collect() gives them
ItemsOf(T, n) ==
    [i \in 1..n |->
        IF T = "bool" THEN i % 2 = 0 ELSE IF T = "u8" THEN (i - 1) % 256 ELSE i - 1]

\* strings: empty, "hello world", one with characters of two, three and four
\* bytes, "abc" a hundred times, and 128 characters of two bytes each
StringSamples ==
    { << >>, << 104, 101, 108, 108, 111, 32, 119, 111, 114, 108, 100 >>,
      << 233, 8364, 128512, 97 >>, [i \in 1..300 |-> 97 + ((i - 1) % 3)],
      [i \in 1..128 |-> 233] }

\* the values of a type
ValueSamples(type) ==
    CASE type.k = "prim" -> PrimSamples(type.T)
      [] type.k = "vec" ->
            { ItemsOf(type.T, n) : n \in { 0, 127, 128, 255, 256, 300 } }
            \cup (IF type.T = "bool" THEN { } ELSE { << 1, 2, 3, 4, 5 >> })
      [] type.k = "string" -> StringSamples
      [] type.k = "option" -> { None } \cup { Some(v) : v \in PrimSamples(type.T) }

\* bytes a buffer may hold where a field is expected: counts of 1, 2 and 3
\* with bytes that are and are not UTF-8, a count with too few bytes after it,
\* a count that is negative as i8, and nothing
ByteSamples ==
    { << 1, 255 >>, << 2, 195, 40 >>, << 2, 195, 169 >>, << 0, 1, 255 >>, << 0, 2, 192, 128 >>,
      << 0, 3, 237, 160, 128 >>, << 0, 3, 226, 130, 172 >>, << 0, 5, 1 >>, << 255, 1 >>, << >> }

NoPut == [ok |-> FALSE, err |-> "uncalled", dst |-> << >>]
NoGet == [ok |-> FALSE, err |-> "uncalled", v |-> 0, rest |-> << >>]

InitCodec ==
    /\ c_type \in FieldTypes
    /\ c_val \in ValueSamples(c_type)
    /\ c_dst \in { << >>, << 9 >> }
    /\ c_tail \in IF c_type.k = "option" THEN { << >> } ELSE { << >>, << 7, 7 >> }
    /\ c_put = NoPut
    /\ c_src = << >>
    /\ c_get = NoGet

CodecOff ==
    /\ c_type = [k |-> "prim", S |-> "none", T |-> "u8"]
    /\ c_val = 0
    /\ c_dst = << >>
    /\ c_tail = << >>
    /\ c_put = NoPut
    /\ c_src = << >>
    /\ c_get = NoGet

\* the value is put to the sink
CodecPut ==
    /\ c_put.err = "uncalled" /\ c_get.err = "uncalled"
    /\ c_put' = put_be(c_type, c_val, c_dst)
    /\ UNCHANGED << c_type, c_val, c_dst, c_tail, c_src, c_get >>
    /\ UNCHANGED << vars_frame, vars_pair, vars_auto, vars_pipe, vars_policy, vars_mappings,
                   vars_relays, vars_servers, vars_pic, vars_trip, vars_listen >>

\* the bytes the put wrote, and what follows them, are given to get_be
CodecGet ==
    /\ c_put.ok /\ c_get.err = "uncalled"
    /\ c_src' = SliceFrom(c_put.dst, Len(c_dst)) \o c_tail
    /\ c_get' = get_be(c_type, SliceFrom(c_put.dst, Len(c_dst)) \o c_tail)
    /\ UNCHANGED << c_type, c_val, c_dst, c_tail, c_put >>
    /\ UNCHANGED << vars_frame, vars_pair, vars_auto, vars_pipe, vars_policy, vars_mappings,
                   vars_relays, vars_servers, vars_pic, vars_trip, vars_listen >>

\* bytes received are given to get_be
CodecGetBytes ==
    /\ c_put.err = "uncalled" /\ c_get.err = "uncalled"
    /\ \E b \in ByteSamples :
        /\ c_src' = b
        /\ c_get' = get_be(c_type, b)
    /\ UNCHANGED << c_type, c_val, c_dst, c_tail, c_put >>
    /\ UNCHANGED << vars_frame, vars_pair, vars_auto, vars_pipe, vars_policy, vars_mappings,
                   vars_relays, vars_servers, vars_pic, vars_trip, vars_listen >>

(***************************************************************************)
(* The pipe and its relays: the plugin registry built by PipeBuilder, the  *)
(* listener's connections, and accept_client run once for each of them.    *)
(***************************************************************************)

Relays == 1..MaxRelays

Factories == 1..MaxFactories

EndpointsOpen == [s \in PacketSide |-> TRUE]

EndpointsClosed == [s \in PacketSide |-> FALSE]

InitRelays ==
    /\ r_phase = "building"
    /\ r_plugins = << >>
    /\ r_conns = 0
    /\ r_status = [r \in Relays |-> "none"]
    /\ r_open = [r \in Relays |-> EndpointsClosed]
    /\ r_lock = {}
    /\ r_log = << >>
    /\ r_states = [r \in Relays |-> << >>]
    /\ r_used = {}

RelaysOff ==
    /\ r_phase = "building"
    /\ r_plugins = << >>
    /\ r_conns = 0
    /\ r_status = << >>
    /\ r_open = << >>
    /\ r_lock = {}
    /\ r_log = << >>
    /\ r_states = << >>
    /\ r_used = {}

\* PipeBuilder::plugin: the plugin is pushed at the end of the vector
PipeBuilder_plugin(plugins, f) == Append(plugins, f)

\* a plugin factory is registered with the builder
Register ==
    /\ r_phase = "building"
    /\ Len(r_plugins) < MaxFactories
    /\ \E f \in Factories \ { r_plugins[k] : k \in 1..Len(r_plugins) } :
        r_plugins' = PipeBuilder_plugin(r_plugins, f)
    /\ UNCHANGED << r_phase, r_conns, r_status, r_open, r_lock, r_log, r_states, r_used >>
    /\ UNCHANGED << vars_frame, vars_pair, vars_auto, vars_pipe, vars_policy, vars_mappings,
                   vars_codec, vars_servers, vars_pic, vars_trip, vars_listen >>

\* the builder builds the pipe, which from then on serves connections
Build ==
    /\ r_phase = "building"
    /\ r_phase' = "serving"
    /\ UNCHANGED << r_plugins, r_conns, r_status, r_open, r_lock, r_log, r_states, r_used >>
    /\ UNCHANGED << vars_frame, vars_pair, vars_auto, vars_pipe, vars_policy, vars_mappings,
                   vars_codec, vars_servers, vars_pic, vars_trip, vars_listen >>

\* the accept loop: the listener yields a connection and accept_client is
\* spawned for it as a future of its own, whatever the relays before it do
Accept ==
    /\ r_phase = "serving"
    /\ r_conns < MaxRelays
    /\ r_conns' = r_conns + 1
    /\ r_status' = [r_status EXCEPT ![r_conns + 1] = "connecting"]
    /\ r_open' = [r_open EXCEPT ![r_conns + 1]["Client"] = TRUE]
    /\ UNCHANGED << r_phase, r_plugins, r_lock, r_log, r_states, r_used >>
    /\ UNCHANGED << vars_frame, vars_pair, vars_auto, vars_pipe, vars_policy, vars_mappings,
                   vars_codec, vars_servers, vars_pic, vars_trip, vars_listen >>

\* server_connection resolves for relay r: with the connection to the
\* server, or with an error, the client connection being dropped with the
\* closure that owns it
AfterServerConnection(r, ok) ==
    /\ r_status' = [r_status EXCEPT ![r] = IF ok THEN "connected" ELSE "refused"]
    /\ r_open' = [r_open EXCEPT ![r] = IF ok THEN EndpointsOpen ELSE EndpointsClosed]

ServerConnection ==
    /\ \E r \in Relays, ok \in BOOLEAN :
        /\ r_status[r] = "connecting"
        /\ AfterServerConnection(r, ok)
    /\ UNCHANGED << r_phase, r_plugins, r_conns, r_lock, r_log, r_states, r_used >>
    /\ UNCHANGED << vars_frame, vars_pair, vars_auto, vars_pipe, vars_policy, vars_mappings,
                   vars_codec, vars_servers, vars_pic, vars_trip, vars_listen >>

\* a mutex that lets every caller in
mutex_lock_shared(holders) == TRUE

\* Mutex::lock returns once no other thread holds the mutex
mutex_lock(holders) == holders = {}

\* relay r enters the statement that initialises its plugins: it takes the
\* plugin lock
Lock ==
    /\ \E r \in Relays :
        /\ r_status[r] = "connected"
        /\ mutex_lock(r_lock)
        /\ r_lock' = r_lock \cup { r }
        /\ r_status' = [r_status EXCEPT ![r] = "locked"]
    /\ UNCHANGED << r_phase, r_plugins, r_conns, r_open, r_log, r_states, r_used >>
    /\ UNCHANGED << vars_frame, vars_pair, vars_auto, vars_pipe, vars_policy, vars_mappings,
                   vars_codec, vars_servers, vars_pic, vars_trip, vars_listen >>

\* the state init_plugin of factory f returns for the connections of relay r
init_plugin(f, r) == [factory |-> f, relay |-> r]

\* the iterator over the locked vector calls the next factory's init_plugin
\* and the state it returns is collected
InitPlugin ==
    /\ \E r \in Relays :
        /\ r_status[r] = "locked"
        /\ Len(r_states[r]) < Len(r_plugins)
        /\ r_log' = Append(r_log, [factory |-> r_plugins[Len(r_states[r]) + 1], relay |-> r,
                                   alone |-> r_lock = { r }])
        /\ r_states' = [r_states EXCEPT
                          ![r] = Append(@, init_plugin(r_plugins[Len(r_states[r]) + 1], r))]
    /\ UNCHANGED << r_phase, r_plugins, r_conns, r_status, r_open, r_lock, r_used >>
    /\ UNCHANGED << vars_frame, vars_pair, vars_auto, vars_pipe, vars_policy, vars_mappings,
                   vars_codec, vars_servers, vars_pic, vars_trip, vars_listen >>

\* the statement ends: the guard is dropped and the relay goes on with the
\* state vector collected
Unlock ==
    /\ \E r \in Relays :
        /\ r_status[r] = "locked"
        /\ Len(r_states[r]) = Len(r_plugins)
        /\ r_lock' = r_lock \ { r }
        /\ r_status' = [r_status EXCEPT ![r] = "running"]
    /\ UNCHANGED << r_phase, r_plugins, r_conns, r_open, r_log, r_states, r_used >>
    /\ UNCHANGED << vars_frame, vars_pair, vars_auto, vars_pipe, vars_policy, vars_mappings,
                   vars_codec, vars_servers, vars_pic, vars_trip, vars_listen >>

\* relay r hands a packet to the callbacks of its state vector
RelayPacket ==
    /\ \E r \in Relays :
        /\ r_status[r] = "running"
        /\ r_used' = r_used \cup { [by |-> r, state |-> r_states[r][k]] :
                                     k \in 1..Len(r_states[r]) }
    /\ UNCHANGED << r_phase, r_plugins, r_conns, r_status, r_open, r_lock, r_log, r_states >>
    /\ UNCHANGED << vars_frame, vars_pair, vars_auto, vars_pipe, vars_policy, vars_mappings,
                   vars_codec, vars_servers, vars_pic, vars_trip, vars_listen >>

\* a relay whose future resolves keeping the client's socket
AfterRelayEnds_client_kept(r, ok) ==
    /\ r_status' = [r_status EXCEPT ![r] = IF ok THEN "done" ELSE "failed"]
    /\ r_open' = [r_open EXCEPT ![r] = [EndpointsClosed EXCEPT !["Client"] = ~ok]]

\* the future of relay r resolves, with () or with a PipeError: the streams
\* and sinks of both connections are dropped with it
AfterRelayEnds(r, ok) ==
    /\ r_status' = [r_status EXCEPT ![r] = IF ok THEN "done" ELSE "failed"]
    /\ r_open' = [r_open EXCEPT ![r] = EndpointsClosed]

RelayEnds ==
    /\ \E r \in Relays, ok \in BOOLEAN :
        /\ r_status[r] = "running"
        /\ AfterRelayEnds(r, ok)
    /\ UNCHANGED << r_phase, r_plugins, r_conns, r_lock, r_log, r_states, r_used >>
    /\ UNCHANGED << vars_frame, vars_pair, vars_auto, vars_pipe, vars_policy, vars_mappings,
                   vars_codec, vars_servers, vars_pic, vars_trip, vars_listen >>

(***************************************************************************)
(* The server list (core/src/serverlist.rs).  A name is the sequence of    *)
(* its characters.                                                         *)
(***************************************************************************)

UpperCase ==
    << "A", "B", "C", "D", "E", "F", "G", "H", "I", "J", "K", "L", "M", "N", "O", "P", "Q",
       "R", "S", "T", "U", "V", "W", "X", "Y", "Z" >>

LowerCase ==
    << "a", "b", "c", "d", "e", "f", "g", "h", "i", "j", "k", "l", "m", "n", "o", "p", "q",
       "r", "s", "t", "u", "v", "w", "x", "y", "z" >>

\* str::to_lowercase on one character and on a name
char_to_lowercase(c) ==
    IF \E i \in 1..26 : UpperCase[i] = c
    THEN LowerCase[CHOOSE i \in 1..26 : UpperCase[i] = c]
    ELSE c

to_lowercase(name) == [i \in 1..Len(name) |-> char_to_lowercase(name[i])]

RECURSIVE replace(_, _, _)
\* str::replace: every match of from, found from left to right without
\* overlap, becomes to
replace(str, from, to) ==
    IF Len(str) < Len(from) THEN str
    ELSE IF SubSeq(str, 1, Len(from)) = from
    THEN to \o replace(SubSeq(str, Len(from) + 1, Len(str)), from, to)
    ELSE << Head(str) >> \o replace(Tail(str), from, to)

\* abbreviate_server_name
abbreviate_server_name(name) ==
    replace(replace(replace(replace(replace(replace(replace(
        to_lowercase(name),
        << "e", "a", "s", "t" >>, << "e" >>),
        << "w", "e", "s", "t" >>, << "w" >>),
        << "s", "o", "u", "t", "h" >>, << "s" >>),
        << "n", "o", "r", "t", "h" >>, << "n" >>),
        << "a", "s", "i", "a" >>, << "a", "s" >>),
        << "m", "i", "d" >>, << "m" >>),
        << "a", "u", "s", "t", "r", "a", "l", "i", "a" >>, << "a", "u", "s" >>)

\* the map with no entry
EmptyMap == [k \in {} |-> 0]

\* HashMap::insert: the value replaces the one the key had
insert(map, key, value) ==
    [k \in DOMAIN map \cup { key } |-> IF k = key THEN value ELSE map[k]]

\* HashMap::entry(key).or_insert(value): the value the key had stays
or_insert(map, key, value) ==
    [k \in DOMAIN map \cup { key } |-> IF k \in DOMAIN map THEN map[k] ELSE value]

\* a turn of the loop with the abbreviation inserted like the name
ServerList_new_entry_overwriting(serverlist, name, ip) ==
    insert(insert(serverlist, to_lowercase(name), ip),
           abbreviate_server_name(to_lowercase(name)), ip)

\* one turn of the loop of ServerList::new, for the entry (name, ip)
ServerList_new_entry(serverlist, name, ip) ==
    or_insert(insert(serverlist, to_lowercase(name), ip),
              abbreviate_server_name(to_lowercase(name)), ip)

RECURSIVE ServerList_new_from(_, _, _)
\* the loop of ServerList::new over the entries from the k-th on, in the
\* order the HashMap yields them
ServerList_new_from(serverlist, servers, order) ==
    IF order = << >> THEN serverlist
    ELSE ServerList_new_from(ServerList_new_entry(serverlist, Head(order), servers[Head(order)]),
                             servers, Tail(order))

\* ServerList::new
ServerList_new(servers, order) == ServerList_new_from(EmptyMap, servers, order)

\* ServerList::get_ip
get_ip(serverlist, name) ==
    IF name \in DOMAIN serverlist THEN Some(serverlist[name]) ELSE None

\* ServerList::get_socket
get_socket(serverlist, name) ==
    IF get_ip(serverlist, name).some
    THEN Some([ip |-> get_ip(serverlist, name).v, port |-> 2050])
    ELSE None

\* the names given to ServerList::new: official ones, a name that is the
\* abbreviation of another, two names with one abbreviation, and a name that
\* differs from another in case only
USEast == << "U", "S", "E", "a", "s", "t" >>
AsiaSouthEast == << "A", "s", "i", "a", "S", "o", "u", "t", "h", "E", "a", "s", "t" >>
Australia == << "A", "u", "s", "t", "r", "a", "l", "i", "a" >>
NameSamples ==
    << USEast, AsiaSouthEast, Australia, << "U", "S", "E" >>, << "A", "s", "i", "a", "E", "a", "s", "t" >>, << "A", "S", "E", "a", "s", "t" >>, << "u", "s", "e", "a", "s", "t" >>,
      << "U", "S", "M", "i", "d", "W", "e", "s", "t" >>, << "E", "U", "N", "o", "r", "t", "h" >> >>

\* the sample servers, by their place in NameSamples, which is also the
\* address each one has
ServerSet == 1..Len(NameSamples)

\* the names asked for
AskSamples ==
    { to_lowercase(NameSamples[i]) : i \in ServerSet }
    \cup { abbreviate_server_name(NameSamples[i]) : i \in ServerSet } \cup { USEast }

NotBuilt == [built |-> FALSE, servers |-> EmptyMap]

NotAsked == [op |-> "none", name |-> << >>, res |-> None]

InitServers ==
    /\ \E chosen \in SUBSET ServerSet :
        /\ Cardinality(chosen) <= MaxServers
        /\ s_servers = [name \in { NameSamples[i] : i \in chosen } |->
                          CHOOSE i \in chosen : NameSamples[i] = name]
    /\ s_order = << >>
    /\ s_list = NotBuilt
    /\ s_ask = NotAsked

ServersOff ==
    /\ s_servers = EmptyMap
    /\ s_order = << >>
    /\ s_list = NotBuilt
    /\ s_ask = NotAsked

\* ServerList::new is called, the HashMap yielding its entries in some order
ServerListNew ==
    /\ ~s_list.built
    /\ \E order \in Perms(DOMAIN s_servers) :
        /\ s_order' = order
        /\ s_list' = [built |-> TRUE, servers |-> ServerList_new(s_servers, order)]
    /\ UNCHANGED << s_servers, s_ask >>
    /\ UNCHANGED << vars_frame, vars_pair, vars_auto, vars_pipe, vars_policy, vars_mappings,
                   vars_codec, vars_relays, vars_pic, vars_trip, vars_listen >>

\* get_ip is called on the list
ServerListGetIp ==
    /\ s_list.built
    /\ \E name \in AskSamples :
        s_ask' = [op |-> "get_ip", name |-> name, res |-> get_ip(s_list.servers, name)]
    /\ UNCHANGED << s_servers, s_order, s_list >>
    /\ UNCHANGED << vars_frame, vars_pair, vars_auto, vars_pipe, vars_policy, vars_mappings,
                   vars_codec, vars_relays, vars_pic, vars_trip, vars_listen >>

\* get_socket is called on the list
ServerListGetSocket ==
    /\ s_list.built
    /\ \E name \in AskSamples :
        s_ask' = [op |-> "get_socket", name |-> name, res |-> get_socket(s_list.servers, name)]
    /\ UNCHANGED << s_servers, s_order, s_list >>
    /\ UNCHANGED << vars_frame, vars_pair, vars_auto, vars_pipe, vars_policy, vars_mappings,
                   vars_codec, vars_relays, vars_pic, vars_trip, vars_listen >>

(***************************************************************************)
(* The Pic message (packets/manual_adapters.rs).  The dimensions and the   *)
(* byte count computed from them are kept as base-256 digits, lowest       *)
(* first, so that the product has its true value.                          *)
(***************************************************************************)

Reverse(q) == [i \in 1..Len(q) |-> q[Len(q) + 1 - i]]

RECURSIVE carry_digits(_, _)
\* the digits of the number whose k-th coefficient is cs[k], lowest first
carry_digits(cs, carry) ==
    IF cs = << >>
    THEN (IF carry = 0 THEN << >> ELSE << carry % 256 >> \o carry_digits(<< >>, carry \div 256))
    ELSE << (Head(cs) + carry) % 256 >> \o carry_digits(Tail(cs), (Head(cs) + carry) \div 256)

RECURSIVE SumTo(_, _)
SumTo(f, n) == IF n = 0 THEN 0 ELSE f[n] + SumTo(f, n - 1)

\* the true product of two numbers given by their digits
mul_digits(a, b) ==
    carry_digits([k \in 1..(Len(a) + Len(b)) |->
                    SumTo([i \in 1..Len(a) |->
                             IF k + 1 - i \in 1..Len(b) THEN a[i] * b[k + 1 - i] ELSE 0],
                          Len(a))], 0)

\* the digit of a number at place k
digit(a, k) == IF k \in 1..Len(a) THEN a[k] ELSE 0

\* the number kept in a usize of size bytes: the low digits
wrapping(a, size) == [k \in 1..size |-> digit(a, k)]

\* whether the number does not fit a usize of size bytes
overflows(a, size) == \E k \in (size + 1)..Len(a) : a[k] # 0

\* whether two numbers given by their digits are equal
same_number(a, b) == \A k \in 1..(Len(a) + Len(b)) : digit(a, k) = digit(b, k)

\* whether the count n, at most 65535, is at least the number a
at_least(n, a) ==
    /\ \A k \in 3..Len(a) : a[k] = 0
    /\ n >= digit(a, 1) + 256 * digit(a, 2)

\* the number a, known to be at most 65535
small(a) == digit(a, 1) + 256 * digit(a, 2)

\* u32::get_be on the buffer, the value kept as digits
u32_get_digits(bytes) ==
    IF Len(bytes) < 4 THEN InsufficientData(bytes)
    ELSE [ok |-> TRUE, err |-> "none", v |-> Reverse(SliceTo(bytes, 4)),
          rest |-> SliceFrom(bytes, 4)]

\* the two multiplications of reqd_bytes in a usize of size bytes: the value
\* a build without overflow checks computes, and whether a build with them
\* panics
reqd_bytes(w, h, size) ==
    [v |-> wrapping(mul_digits(wrapping(mul_digits(w, h), size), << 4 >>), size),
     overflow |-> \/ overflows(mul_digits(w, h), size)
                  \/ overflows(mul_digits(wrapping(mul_digits(w, h), size), << 4 >>), size)]

\* the rest of Pic::get_be once w and h are read and reqd_bytes is computed
Pic_get_bitmap(w, h, reqd, bytes) ==
    IF at_least(Len(bytes), reqd)
    THEN [kind |-> "ok", err |-> "none", w |-> w, h |-> h,
          bitmap_data |-> SliceTo(bytes, small(reqd)), rest |-> SliceFrom(bytes, small(reqd))]
    ELSE [kind |-> "err", err |-> "InsufficientData", w |-> w, h |-> h, bitmap_data |-> << >>,
          rest |-> bytes]

\* what get_be returns when reading a dimension fails
Pic_short(bytes) ==
    [kind |-> "err", err |-> "InsufficientData", w |-> << >>, h |-> << >>,
     bitmap_data |-> << >>, rest |-> bytes]

\* the thread panicking on an arithmetic overflow
Pic_panic(w, h, bytes) ==
    [kind |-> "panic", err |-> "none", w |-> w, h |-> h, bitmap_data |-> << >>, rest |-> bytes]

\* Pic::get_be in a build whose usize has size bytes and which checks
\* integer overflow or not
Pic_get_be(bytes, size, checks) ==
    IF ~u32_get_digits(bytes).ok THEN Pic_short(u32_get_digits(bytes).rest)
    ELSE IF ~u32_get_digits(SliceFrom(bytes, 4)).ok
    THEN Pic_short(u32_get_digits(SliceFrom(bytes, 4)).rest)
    ELSE IF checks /\ reqd_bytes(u32_get_digits(bytes).v,
                                 u32_get_digits(SliceFrom(bytes, 4)).v, size).overflow
    THEN Pic_panic(u32_get_digits(bytes).v, u32_get_digits(SliceFrom(bytes, 4)).v,
                   SliceFrom(bytes, 8))
    ELSE Pic_get_bitmap(u32_get_digits(bytes).v, u32_get_digits(SliceFrom(bytes, 4)).v,
                        reqd_bytes(u32_get_digits(bytes).v,
                                   u32_get_digits(SliceFrom(bytes, 4)).v, size).v,
                        SliceFrom(bytes, 8))

\* dimensions as they are on the wire: small ones, and ones whose byte count
\* is 2^32, 2^32 + 4, 2^34, 2^64 and 2^64 + 2^33
DimSamples ==
    { << 0, 0, 0, 0 >>, << 0, 0, 0, 1 >>, << 0, 0, 0, 2 >>, << 64, 0, 0, 0 >>,
      << 64, 0, 0, 1 >>, << 0, 1, 0, 0 >>, << 128, 0, 0, 0 >>, << 128, 0, 0, 1 >> }

\* the bytes after the dimensions
BitmapSamples == { [i \in 1..n |-> 16 + i] : n \in 0..MaxBitmap }

\* what a buffer holds: nothing, part of the dimensions, or the dimensions
\* and some bytes
PicSamples ==
    { << >>, << 0, 0, 0 >>, << 0, 0, 0, 1, 0, 0 >> }
    \cup { w \o h \o b : w \in DimSamples, h \in DimSamples, b \in BitmapSamples }

NotDecoded ==
    [kind |-> "uncalled", err |-> "none", w |-> << >>, h |-> << >>, bitmap_data |-> << >>,
     rest |-> << >>]

InitPic ==
    /\ pic_usize \in { 4, 8 }
    /\ pic_checks \in BOOLEAN
    /\ pic_src \in PicSamples
    /\ pic_res = NotDecoded

PicOff ==
    /\ pic_usize = 8
    /\ pic_checks = FALSE
    /\ pic_src = << >>
    /\ pic_res = NotDecoded

\* Pic::get_be is called on the buffer
PicGet ==
    /\ pic_res.kind = "uncalled"
    /\ pic_res' = Pic_get_be(pic_src, pic_usize, pic_checks)
    /\ UNCHANGED << pic_usize, pic_checks, pic_src >>
    /\ UNCHANGED << vars_frame, vars_pair, vars_auto, vars_pipe, vars_policy, vars_mappings,
                   vars_codec, vars_relays, vars_servers, vars_trip, vars_listen >>

(***************************************************************************)
(* One typed message converted to a raw packet with from_packet and back   *)
(* with to_packet (proxy/raw.rs), under the same mappings.                 *)
(***************************************************************************)

\* EnemyShoot messages: each optional field absent or present
EnemyShootSamples ==
    { [id |-> "EnemyShoot",
       fields |-> << bullet_id, 70000, 3, 1065353216, 1073741824, angle, 150, num_shots,
                     angle_inc >>] :
        bullet_id \in { 0, 7 }, angle \in { 0, 1078530011 },
        num_shots \in { None, Some(1), Some(5) },
        angle_inc \in { None, Some(0), Some(1036831949) } }

\* the messages converted: EnemyShoot ones, messages of fixed-width fields,
\* messages without fields, and Escape, which the mappings have no wire ID for
MessageSamples ==
    EnemyShootSamples \cup PacketSamples
    \cup { [id |-> "Ping", fields |-> << 0 >>], [id |-> "GotoAck", fields |-> << 16777216 >>],
           [id |-> "CancelTrade", fields |-> << >>], [id |-> "VerifyEmail", fields |-> << >>] }

NotConverted == [ok |-> FALSE, raw |-> RawPacket_new(<< >>), err |-> "uncalled"]

NotConvertedBack ==
    [ok |-> FALSE, packet |-> [id |-> "none", fields |-> << >>], err |-> "uncalled"]

InitTrip ==
    /\ t_packet \in MessageSamples
    /\ t_raw = NotConverted
    /\ t_back = NotConvertedBack

TripOff ==
    /\ t_packet = [id |-> "none", fields |-> << >>]
    /\ t_raw = NotConverted
    /\ t_back = NotConvertedBack

\* RawPacket::from_packet is called with the message
TripFromPacket ==
    /\ t_raw.err = "uncalled"
    /\ t_raw' = from_packet(t_packet)
    /\ UNCHANGED << t_packet, t_back >>
    /\ UNCHANGED << vars_frame, vars_pair, vars_auto, vars_pipe, vars_policy, vars_mappings,
                   vars_codec, vars_relays, vars_servers, vars_pic, vars_listen >>

\* RawPacket::to_packet is called on the raw packet from_packet returned
TripToPacket ==
    /\ t_raw.ok
    /\ t_back.err = "uncalled"
    /\ t_back' = to_packet(t_raw.raw)
    /\ UNCHANGED << t_packet, t_raw >>
    /\ UNCHANGED << vars_frame, vars_pair, vars_auto, vars_pipe, vars_policy, vars_mappings,
                   vars_codec, vars_relays, vars_servers, vars_pic, vars_listen >>

(***************************************************************************)
(* The listener (proxy/mod.rs, client_listener): the stream of connections *)
(* made to the listening socket, each run through the policy preamble by   *)
(* and_then, the surviving ones yielded as framed connections.             *)
(***************************************************************************)

\* what a client sends in all on a connection it has made: nothing, only the
\* start of the request, the request, a game frame, and bytes that start like
\* the request and then differ
ConnSamples ==
    { << >>, SliceTo(POLICY_REQUEST, 5), POLICY_REQUEST, << 0, 0, 0, 6, 5, 200 >>,
      << 60, 112, 0, 9, 1 >> }

InitListen ==
    /\ l_conns = << >>
    /\ l_taken = 0
    /\ l_current = 0
    /\ l_yielded = << >>

ListenOff ==
    /\ l_conns = << >>
    /\ l_taken = 0
    /\ l_current = 0
    /\ l_yielded = << >>

\* the bytes of a connection waiting on its socket; the preamble only peeks
WaitingOn(c) == SliceTo(c.input, c.avail)

\* a client connects to the listening socket
ListenConnect ==
    /\ Len(l_conns) < MaxConns
    /\ \E input \in ConnSamples :
        l_conns' = Append(l_conns, [input |-> input, avail |-> 0, bytes |-> << >>,
                                    state |-> "made"])
    /\ UNCHANGED << l_taken, l_current, l_yielded >>
    /\ UNCHANGED << vars_frame, vars_pair, vars_auto, vars_pipe, vars_policy, vars_mappings,
                   vars_codec, vars_relays, vars_servers, vars_pic, vars_trip >>

\* more of the bytes a client sends arrive at its socket
ListenArrive ==
    /\ \E i \in 1..Len(l_conns) :
        /\ l_conns[i].avail < Len(l_conns[i].input)
        /\ \E k \in (l_conns[i].avail + 1)..Len(l_conns[i].input) :
            l_conns' = [l_conns EXCEPT ![i].avail = k]
    /\ UNCHANGED << l_taken, l_current, l_yielded >>
    /\ UNCHANGED << vars_frame, vars_pair, vars_auto, vars_pipe, vars_policy, vars_mappings,
                   vars_codec, vars_relays, vars_servers, vars_pic, vars_trip >>

\* and_then holds no future: it polls incoming() for the next connection,
\* configure_stream sets nodelay and handle_policy_request starts on it
ListenTake ==
    /\ l_current = 0
    /\ l_taken < Len(l_conns)
    /\ l_taken' = l_taken + 1
    /\ l_current' = l_taken + 1
    /\ l_conns' = [l_conns EXCEPT ![l_taken + 1].state = "peeking"]
    /\ UNCHANGED l_yielded
    /\ UNCHANGED << vars_frame, vars_pair, vars_auto, vars_pipe, vars_policy, vars_mappings,
                   vars_codec, vars_relays, vars_servers, vars_pic, vars_trip >>

\* what a turn of the preamble's loop leaves of the connection
AfterListenStep(c, r) ==
    [c EXCEPT !.bytes = r.bytes, !.state = IF r.kind = "continue" THEN "peeking" ELSE r.kind]

\* and_then holds the preamble of a connection and polls it: one turn of
\* handle_policy_request's loop; a peek completes when bytes are waiting
ListenStep ==
    /\ l_current # 0
    /\ l_conns[l_current].state = "peeking"
    /\ policy_step(l_conns[l_current].bytes, WaitingOn(l_conns[l_current])).kind = "continue"
        => WaitingOn(l_conns[l_current]) # << >>
    /\ l_conns' = [l_conns EXCEPT ![l_current] =
                      AfterListenStep(l_conns[l_current],
                                      policy_step(l_conns[l_current].bytes,
                                                  WaitingOn(l_conns[l_current])))]
    /\ UNCHANGED << l_taken, l_current, l_yielded >>
    /\ UNCHANGED << vars_frame, vars_pair, vars_auto, vars_pipe, vars_policy, vars_mappings,
                   vars_codec, vars_relays, vars_servers, vars_pic, vars_trip >>

\* the preamble has resolved: and_then lets go of it, filter_map(identity)
\* drops None and map frames Some(stream), which the listener yields
ListenResolve ==
    /\ l_current # 0
    /\ l_conns[l_current].state \in { "policy", "stream" }
    /\ l_current' = 0
    /\ IF l_conns[l_current].state = "stream"
       THEN /\ l_conns' = [l_conns EXCEPT ![l_current].state = "framed"]
            /\ l_yielded' = Append(l_yielded, l_current)
       ELSE /\ l_conns' = [l_conns EXCEPT ![l_current].state = "closed"]
            /\ UNCHANGED l_yielded
    /\ UNCHANGED l_taken
    /\ UNCHANGED << vars_frame, vars_pair, vars_auto, vars_pipe, vars_policy, vars_mappings,
                   vars_codec, vars_relays, vars_servers, vars_pic, vars_trip >>

(***************************************************************************)
(* Specifications                                                          *)
(***************************************************************************)

Init == InitPipe /\ FrameOff /\ PairOff /\ AutoOff /\ PolicyOff /\ MappingsOff /\ CodecOff /\ RelaysOff /\ ServersOff /\ PicOff /\ TripOff /\ ListenOff

Next == Connect \/ Poll \/ Forward

Spec == Init /\ [][Next]_vars

InitTypedSpec == InitTyped /\ FrameOff /\ PairOff /\ AutoOff /\ PolicyOff /\ MappingsOff /\ CodecOff /\ RelaysOff /\ ServersOff /\ PicOff /\ TripOff /\ ListenOff

SpecTyped == InitTypedSpec /\ [][Next]_vars

InitFaultySpec == InitFaulty /\ FrameOff /\ PairOff /\ AutoOff /\ PolicyOff /\ MappingsOff /\ CodecOff /\ RelaysOff /\ ServersOff /\ PicOff /\ TripOff /\ ListenOff

SpecFaulty == InitFaultySpec /\ [][Next]_vars

InitPressureSpec == InitPressure /\ FrameOff /\ PairOff /\ AutoOff /\ PolicyOff /\ MappingsOff /\ CodecOff /\ RelaysOff /\ ServersOff /\ PicOff /\ TripOff /\ ListenOff

SpecPressure == InitPressureSpec /\ [][Next]_vars

InitFrameSpec == InitFrame /\ PairOff /\ AutoOff /\ PipeOff /\ PolicyOff /\ MappingsOff /\ CodecOff /\ RelaysOff /\ ServersOff /\ PicOff /\ TripOff /\ ListenOff

NextFrame == FrameFeed \/ FrameDecode \/ FrameEncode

SpecFrame == InitFrameSpec /\ [][NextFrame]_vars

InitPairSpec == InitPair /\ FrameOff /\ AutoOff /\ PipeOff /\ PolicyOff /\ MappingsOff /\ CodecOff /\ RelaysOff /\ ServersOff /\ PicOff /\ TripOff /\ ListenOff

NextPair == PairEncode \/ PairDeliver \/ PairDecode

SpecPair == InitPairSpec /\ [][NextPair]_vars

InitAutoSpec == InitAuto /\ FrameOff /\ PairOff /\ PipeOff /\ PolicyOff /\ MappingsOff /\ CodecOff /\ RelaysOff /\ ServersOff /\ PicOff /\ TripOff /\ ListenOff

NextAuto == AutoGetAny \/ AutoDowncast

SpecAuto == InitAutoSpec /\ [][NextAuto]_vars

InitMappingsSpec ==
    InitMappings /\ FrameOff /\ PairOff /\ AutoOff /\ PipeOff /\ PolicyOff /\ CodecOff /\ RelaysOff /\ ServersOff /\ PicOff /\ TripOff /\ ListenOff

InitCodecSpec ==
    InitCodec /\ FrameOff /\ PairOff /\ AutoOff /\ PipeOff /\ PolicyOff /\ MappingsOff /\ RelaysOff /\ ServersOff /\ PicOff /\ TripOff /\ ListenOff

NextCodec == CodecPut \/ CodecGet \/ CodecGetBytes

SpecCodec == InitCodecSpec /\ [][NextCodec]_vars

InitRelaysSpec ==
    InitRelays /\ FrameOff /\ PairOff /\ AutoOff /\ PipeOff /\ PolicyOff /\ MappingsOff /\ CodecOff /\ ServersOff /\ PicOff /\ TripOff /\ ListenOff

NextRelays ==
    Register \/ Build \/ Accept \/ ServerConnection \/ Lock \/ InitPlugin \/ Unlock
    \/ RelayPacket \/ RelayEnds

SpecRelays == InitRelaysSpec /\ [][NextRelays]_vars

InitServersSpec ==
    InitServers /\ FrameOff /\ PairOff /\ AutoOff /\ PipeOff /\ PolicyOff /\ MappingsOff /\ CodecOff /\ RelaysOff /\ PicOff /\ TripOff /\ ListenOff

NextServers == ServerListNew \/ ServerListGetIp \/ ServerListGetSocket

SpecServers == InitServersSpec /\ [][NextServers]_vars

InitPicSpec ==
    InitPic /\ FrameOff /\ PairOff /\ AutoOff /\ PipeOff /\ PolicyOff /\ MappingsOff /\ CodecOff /\ RelaysOff /\ ServersOff /\ TripOff /\ ListenOff

NextPic == PicGet

SpecPic == InitPicSpec /\ [][NextPic]_vars

InitTripSpec ==
    InitTrip /\ FrameOff /\ PairOff /\ AutoOff /\ PipeOff /\ PolicyOff /\ MappingsOff /\ CodecOff /\ RelaysOff /\ ServersOff /\ PicOff /\ ListenOff

NextTrip == TripFromPacket \/ TripToPacket

SpecTrip == InitTripSpec /\ [][NextTrip]_vars

InitListenSpec ==
    InitListen /\ FrameOff /\ PairOff /\ AutoOff /\ PipeOff /\ PolicyOff /\ MappingsOff /\ CodecOff /\ RelaysOff /\ ServersOff /\ PicOff /\ TripOff

NextListen == ListenConnect \/ ListenArrive \/ ListenTake \/ ListenStep \/ ListenResolve

\* the bytes clients send arrive, and the executor polls the listener whenever
\* it can make progress
SpecListen ==
    /\ InitListenSpec
    /\ [][NextListen]_vars
    /\ WF_vars(ListenArrive)
    /\ WF_vars(ListenTake)
    /\ WF_vars(ListenStep)
    /\ WF_vars(ListenResolve)

NextMappings == MappingsNew \/ MappingsGetInternalId \/ MappingsGetGameId

SpecMappings == InitMappingsSpec /\ [][NextMappings]_vars

InitPolicySpec == InitPolicy /\ FrameOff /\ PairOff /\ AutoOff /\ PipeOff /\ MappingsOff /\ CodecOff /\ RelaysOff /\ ServersOff /\ PicOff /\ TripOff /\ ListenOff

NextPolicy == PolicyArrive \/ PolicyStep \/ PolicyFramed \/ PolicyRead

\* the client's bytes arrive, the executor runs the preamble and the listener
\* yields what it hands back
SpecPolicy ==
    /\ InitPolicySpec
    /\ [][NextPolicy]_vars
    /\ WF_vars(PolicyArrive)
    /\ WF_vars(PolicyStep)
    /\ WF_vars(PolicyFramed)

(***************************************************************************)
(* Properties of the relay                                                 *)
(***************************************************************************)

\* the batch of the i-th packet handed to the plugins has been sent in full
BatchDone(i) == i < Len(seen) \/ queue = << >>

\* a written packet is the received packet of its batch, not one a plugin sent
IsOriginal(e) == e.slot = 1 /\ ~seen[e.batch].ctx.cancelled

\* the records of the packets written for batch i, in the order written
WrittenOf(i) == SelectSeq(w_all, LAMBDA e : e.batch = i)

\* the records of the packets written to one side's codec, in the order written
WrittenTo(to) == SelectSeq(w_all, LAMBDA e : e.to = to)

Raws(entries) == [k \in 1..Len(entries) |-> entries[k].raw]

RECURSIVE PeerReads(_, _)
\* the raw packets a peer decodes from the bytes written to its socket
PeerReads(peer, bytes) ==
    LET r == decode(peer, bytes, FALSE)
    IN  IF r.kind = "packet" THEN << r.raw >> \o PeerReads(r.codec, r.buf) ELSE << >>

RECURSIVE EncodedOf(_)
\* the raw packets of the messages that encode, in order
EncodedOf(packets) ==
    IF packets = << >> THEN << >>
    ELSE (IF from_packet(Head(packets)).ok THEN << from_packet(Head(packets)).raw >> ELSE << >>)
         \o EncodedOf(Tail(packets))

IsPrefix(p, q) == Len(p) <= Len(q) /\ p = SubSeq(q, 1, Len(p))

\* C1: in each direction the plugin chain sees the packets in the order they
\* were sent on the wire, the packets not cancelled are written to the opposite
\* codec in that order, and the opposite peer reads the packets written to its
\* socket in the order they were written
C1_OrderWithinDirection ==
    \A side \in PacketSide :
        LET visible == SelectSeq(seen, LAMBDA x : x.side = side)
            kept == SelectSeq(visible, LAMBDA x : ~x.ctx.cancelled)
            log == WrittenTo(Opposite(side))
            originals == SelectSeq(log, LAMBDA e : IsOriginal(e) /\ seen[e.batch].side = side)
        IN  /\ IsPrefix(Raws(visible), sent[side])
            /\ IsPrefix(Raws(originals), Raws(kept))
            /\ queue = << >> => Raws(originals) = Raws(kept)
            /\ PeerReads(PeerCodec(Opposite(side)), wr[Opposite(side)]) = Raws(log)

\* both client packets were forwarded to the server around a server packet
C1_Witness ==
    /\ Len(seen) = 3
    /\ seen[1].side = "Client"
    /\ seen[2].side = "Server"
    /\ seen[3].side = "Client"
    /\ seen[1].raw # seen[3].raw
    /\ queue = << >>
    /\ Len(SelectSeq(WrittenTo("Server"), IsOriginal)) = 2

\* C2: a packet some plugin cancelled is written to neither codec; every packet
\* starts from a fresh context, so a packet no plugin cancels is forwarded and
\* the packets queued for it are those sent during its own callbacks
C2_CancelIsFinal ==
    /\ \A k \in 1..Len(w_all) :
        IsOriginal(w_all[k]) => ~seen[w_all[k].batch].cancel_called
    /\ \A i \in 1..Len(seen) :
        /\ seen[i].ctx.extra = seen[i].sent
        /\ (BatchDone(i) /\ ~seen[i].cancel_called) =>
              \E k \in 1..Len(w_all) :
                  /\ w_all[k].batch = i
                  /\ IsOriginal(w_all[k])
                  /\ w_all[k].raw = seen[i].raw

\* with two plugins, a cancelled packet was followed by one that was forwarded
C2_Witness ==
    /\ n_plugins = 2
    /\ Len(seen) >= 2
    /\ seen[1].cancel_called
    /\ seen[1].side = seen[2].side
    /\ ~seen[2].cancel_called
    /\ queue = << >>
    /\ \A k \in 1..Len(w_all) : w_all[k].batch # 1
    /\ \E k \in 1..Len(w_all) : w_all[k].batch = 2

\* the batch expected for the i-th packet: the packet itself unless a plugin
\* cancelled it, then the encodings of the messages sent, in the order of the
\* send_packet calls (a message that does not encode contributes none)
ExpectedBatch(i) ==
    (IF seen[i].cancel_called THEN << >> ELSE << seen[i].raw >>) \o EncodedOf(seen[i].sent)

TargetOf(id) == IF DeclaredSide(id) = "Client" THEN "Server" ELSE "Client"

\* C4: a message a plugin sent is written to the codec its variant's declared
\* side tells: client-declared to the server codec, server-declared to the
\* client codec
C4_InjectedRoutedByDeclaredSide ==
    \A k \in 1..Len(w_all) :
        ~IsOriginal(w_all[k]) =>
            w_all[k].to = TargetOf(game_packet_ids[game_id(w_all[k].raw)])

\* C5: every item of a batch is written once, to one codec, and a received
\* packet that is forwarded is written to the codec of the opposite side
C5_ExactlyOneCodec ==
    /\ \A i \in 1..Len(seen) : \A j \in 1..seen[i].len :
        LET n == Cardinality({ k \in 1..Len(w_all) :
                                 w_all[k].batch = i /\ w_all[k].slot = j })
        IN  IF i < Len(seen) \/ j <= seen[i].len - Len(queue) THEN n = 1 ELSE n = 0
    /\ \A k \in 1..Len(w_all) :
        IsOriginal(w_all[k]) => w_all[k].to = Opposite(seen[w_all[k].batch].side)

\* a client packet went to the server codec and a server packet to the client
\* codec, and a plugin's message was written too
C5_Witness ==
    /\ queue = << >>
    /\ \E k \in 1..Len(w_all) :
        IsOriginal(w_all[k]) /\ seen[w_all[k].batch].side = "Client" /\ w_all[k].to = "Server"
    /\ \E k \in 1..Len(w_all) :
        IsOriginal(w_all[k]) /\ seen[w_all[k].batch].side = "Server" /\ w_all[k].to = "Client"
    /\ \E k \in 1..Len(w_all) : ~IsOriginal(w_all[k])

\* the scenario of C6: one plugin, the client sends wire IDs 42 and 5, the
\* server nothing; the plugin cancels the first and sends one client-declared
\* reply for it, and leaves the second alone; the relay has completed
Reply == [id |-> "GotoAck", fields |-> << 258 >>]

C6_Scenario ==
    /\ n_plugins = 1
    /\ sent["Client"] = << RawPacket_new(<< 0, 0, 0, 9, 42, 0, 0, 1, 2 >>),
                           RawPacket_new(<< 0, 0, 0, 6, 5, 200 >>) >>
    /\ sent["Server"] = << >>
    /\ status = "done"
    /\ Len(seen) = 2
    /\ seen[1].cancel_called
    /\ seen[1].sent = << Reply >>
    /\ ~seen[2].cancel_called
    /\ seen[2].sent = << >>

\* C6: in that scenario the server codec is written the encoded reply and then
\* the forwarded second packet, the client codec nothing, and the send
\* keystream toward the server has advanced by the two payload lengths
C6_EndToEnd ==
    C6_Scenario =>
        /\ Raws(WrittenTo("Server")) = << from_packet(Reply).raw, sent["Client"][2] >>
        /\ WrittenTo("Client") = << >>
        /\ wr["Client"] = << >>
        /\ codec["Server"].send_rc4.pos =
              Len(contents(from_packet(Reply).raw)) + Len(contents(sent["Client"][2]))

(***************************************************************************)
(* Properties of the frame codec                                           *)
(***************************************************************************)

\* the payload length of a frame: its length without header and wire ID
PayloadLen(bytes) == Len(bytes) - 5

RECURSIVE SumPayload(_)
SumPayload(ss) ==
    IF ss = << >> THEN 0 ELSE PayloadLen(Head(ss)) + SumPayload(Tail(ss))

RECURSIVE HeadersClear(_, _)
\* dst is one frame per encoded packet, each with the packet's own header and
\* wire ID
HeadersClear(dst, encoded) ==
    IF encoded = << >> THEN dst = << >>
    ELSE LET n == Len(Head(encoded).bytes)
         IN  /\ Len(dst) >= n
             /\ SliceTo(dst, 5) = SliceTo(Head(encoded).bytes, 5)
             /\ HeadersClear(SliceFrom(dst, n), Tail(encoded))

\* C7: what the complementary codec decodes is the sequence of raw packets
\* that was encoded, packet for packet, all of it once the wire is drained, and
\* each frame written is 5 bytes longer than its packet's payload
C7_RoundTrip ==
    /\ ~p_failed
    /\ IsPrefix(p_rcvd, p_sent)
    /\ (p_dst = << >> /\ Len(p_buf) < 4) => (p_rcvd = p_sent /\ p_buf = << >>)
    /\ \A i \in 1..Len(p_frames) :
        /\ Len(p_frames[i]) = 5 + Len(contents(p_sent[i]))
        /\ get_u32_be(p_frames[i]) = Len(p_frames[i])

\* two packets with payloads went over the wire and were decoded
C7_Witness ==
    /\ Len(p_rcvd) = 2
    /\ Len(contents(p_rcvd[1])) > 0
    /\ Len(contents(p_rcvd[2])) > 0
    /\ p_rcvd[1] # p_rcvd[2]
    /\ p_rcvd = p_sent

\* C8: the receive keystream has advanced by the payload lengths of the frames
\* decoded and the send keystream by those of the packets encoded; header and
\* wire ID pass through as they are in both directions
C8_KeystreamOverPayloadOnly ==
    /\ f_codec.recv_rc4.pos = SumPayload(f_frames)
    /\ f_codec.send_rc4.pos = SumPayload([i \in 1..Len(f_encoded) |-> f_encoded[i].bytes])
    /\ Len(f_emitted) = Len(f_frames)
    /\ \A i \in 1..Len(f_frames) :
        /\ Len(f_emitted[i].bytes) = Len(f_frames[i])
        /\ SliceTo(f_emitted[i].bytes, 5) = SliceTo(f_frames[i], 5)
    /\ HeadersClear(f_dst, f_encoded)

\* both keystreams have advanced: two frames were decoded and packets encoded
C8_Witness ==
    /\ f_codec.recv_rc4.pos > 0
    /\ f_codec.send_rc4.pos > 0
    /\ Len(f_emitted) = 2
    /\ Len(f_encoded) = 2

\* C9: a decode call that reads a length header below 5 ends in a framing
\* error returned by decode
C9_ShortHeaderIsError ==
    (f_last.size >= 0 /\ f_last.size < 5) => f_last.kind = "error"

\* a decode call that reads a length header of 5 yields a raw packet of the
\* wire ID alone and leaves the receive keystream where it was
C9_HeaderFive ==
    (f_last.kind = "packet" /\ f_last.size = 5) =>
        /\ Len(f_emitted[Len(f_emitted)].bytes) = 5
        /\ contents(f_emitted[Len(f_emitted)]) = << >>
        /\ f_codec.recv_rc4.pos = SumPayload(SliceTo(f_frames, Len(f_frames) - 1))

RECURSIVE decode_all(_, _, _)
\* decode called on a buffer until it yields no packet: the packets in order
\* (after those of acc), the codec and the buffer left, and what the last
\* call said
decode_all(c, buf, acc) ==
    IF decode(c, buf, FALSE).kind = "packet"
    THEN decode_all(decode(c, buf, FALSE).codec, decode(c, buf, FALSE).buf,
                    Append(acc, decode(c, buf, FALSE).raw))
    ELSE [codec |-> c, buf |-> buf, packets |-> acc, kind |-> decode(c, buf, FALSE).kind]

\* the codec before it read anything
FreshCodec == [f_codec EXCEPT !.recv_rc4.pos = 0]

\* whether the buffer holds less than the header or less than the frame the
\* header announces
FrameIncomplete(buf) == Len(buf) < 4 \/ Len(buf) < get_u32_be(buf)

\* C33: a decode call answers need more exactly when fewer than 4 bytes or
\* fewer bytes than the header announces are buffered, and then leaves the
\* buffer, both keystreams and the packets yielded as they were; the packets
\* yielded are those the complete frames decode to when given whole
C33_NeedMoreTakesNothing ==
    /\ [][FrameDecode =>
            /\ FrameIncomplete(f_buf) <=> f_last'.kind = "need_more"
            /\ f_last'.kind = "need_more" =>
                  f_buf' = f_buf /\ f_codec' = f_codec /\ f_emitted' = f_emitted]_vars
    /\ [](f_emitted = decode_all(FreshCodec, Concat(f_frames), << >>).packets)

\* after one frame was decoded, decode was called on a second frame of which
\* the header and part of the contents had arrived
C33_Witness ==
    /\ f_last.kind = "need_more"
    /\ f_last.size >= 6
    /\ Len(f_buf) >= 5
    /\ Len(f_buf) < f_last.size
    /\ Len(f_emitted) = 1
    /\ f_codec.recv_rc4.pos > 0

\* the bytes received so far, in order
Received == Concat(f_frames) \o f_buf

\* C35: whatever the chunks the bytes arrived in, the packets yielded are the
\* first of those that decoding the received bytes in one piece yields, in
\* the same order, and once the buffer holds no whole frame they are all of
\* them, the receive keystream and the bytes left over being the same
C35_ChunkingIrrelevant ==
    f_last.kind # "panic" =>
        /\ IsPrefix(f_emitted, decode_all(FreshCodec, Received, << >>).packets)
        /\ decode(f_codec, f_buf, FALSE).kind = "need_more" =>
              /\ f_emitted = decode_all(FreshCodec, Received, << >>).packets
              /\ f_codec.recv_rc4 = decode_all(FreshCodec, Received, << >>).codec.recv_rc4
              /\ f_buf = decode_all(FreshCodec, Received, << >>).buf

\* two frames with contents were decoded, decode having been called at least
\* once on a buffer that held only part of a frame, and nothing is left over
C35_Witness ==
    /\ Len(f_emitted) = 2
    /\ Len(contents(f_emitted[1])) > 0
    /\ Len(contents(f_emitted[2])) > 0
    /\ f_emitted[1] # f_emitted[2]
    /\ f_net = << >>
    /\ f_buf = << >>
    /\ f_last.kind = "need_more"
    /\ f_last.split

(***************************************************************************)
(* Properties of the lazy-decode handle                                    *)
(***************************************************************************)

\* C10: to_packet runs at most once for a handle; its result, success or
\* failure, stays stored; a call that returns a packet returns the one decoded
\* first; after a failure every call returns None; a downcast to a type other
\* than the packet's returns None and does not decode
C10_DecodeAtMostOnce ==
    /\ a_decodes <= 1
    /\ a_decodes = 0 => ~a_auto.decoded.some
    /\ a_decodes = 1 =>
          /\ a_auto.decoded.some
          /\ a_first.some
          /\ a_auto.decoded.v = a_first.v
    /\ (a_last.op # "none" /\ a_last.ret.some) =>
          /\ a_first.some
          /\ a_first.v.ok
          /\ a_last.ret.v = a_first.v.packet
    /\ (a_first.some /\ ~a_first.v.ok) => ~a_last.ret.some
    /\ a_last.op = "downcast" =>
          LET id == get_internal_id(game_id(a_auto.raw))
          IN  (~id.some \/ id.v # a_last.T) =>
                  (~a_last.ret.some /\ a_last.decodes = 0)

\* the third call on a handle returned the packet the first call decoded
C10_Witness ==
    /\ a_calls = 3
    /\ a_decodes = 1
    /\ a_last.decodes = 0
    /\ a_last.ret.some

(***************************************************************************)
(* Properties of failures                                                  *)
(***************************************************************************)

\* a callback asked for the typed form of the i-th packet
AskedTyped(i) == \E k \in 1..Len(seen[i].typed) : seen[i].typed[k]

\* the typed decode of a raw packet fails: its wire ID is not mapped, or its
\* payload does not decode
DecodeFails(raw) ==
    \/ ~get_internal_id(game_id(raw)).some
    \/ ~to_packet(raw).ok

\* C11: a received packet that no plugin cancels is written once, to the codec
\* of the opposite side, with the bytes received, whether or not plugins asked
\* for its typed form and whether or not that decode succeeded; the opposite
\* peer reads these packets from its socket
C11_UndecodableStillForwarded ==
    /\ \A i \in 1..Len(seen) :
        (BatchDone(i) /\ ~seen[i].cancel_called) =>
            /\ Len(WrittenOf(i)) = 1
            /\ WrittenOf(i)[1].raw = seen[i].raw
            /\ WrittenOf(i)[1].to = Opposite(seen[i].side)
    /\ \A k \in 1..Len(w_all) : w_all[k].raw = seen[w_all[k].batch].raw
    /\ \A side \in PacketSide :
        PeerReads(PeerCodec(side), wr[side]) = Raws(WrittenTo(side))

\* a packet whose payload does not decode and one whose wire ID is not mapped
\* were both asked for typed and both forwarded
C11_Witness ==
    /\ typing
    /\ Len(seen) = 2
    /\ queue = << >>
    /\ Len(w_all) = 2
    /\ \A i \in 1..2 : AskedTyped(i) /\ DecodeFails(seen[i].raw)
    /\ \E i \in 1..2 : seen[i].warns = 1
    /\ \E i \in 1..2 : ~get_internal_id(game_id(seen[i].raw)).some

\* C12: once get_any has returned absent for a handle, the failure has been
\* logged exactly once
C12_FailureLoggedOnce ==
    (a_last.op = "get_any" /\ ~a_last.ret.some) => a_warns = 1

\* a failed decode of the payload is logged once, however many calls follow
C12_FieldErrorLoggedOnce ==
    /\ a_warns <= 1
    /\ (a_first.some /\ ~a_first.v.ok) => a_warns = 1

\* C13: once either inbound stream has reached its end the relay has
\* terminated
C13_EitherEndTerminates ==
    (\E s \in PacketSide : fused[s]) => status \in { "done", "failed" }

\* the peer at side s ended its stream with a frame whose header is below 5,
\* and the relay has read it
ShortHeaderRead(s) ==
    /\ junk[s] # << >>
    /\ get_u32_be(junk[s][1]) < 5
    /\ net[s] = << >>

\* C14: once an inbound stream has met a framing error the relay future has
\* resolved with an error
C14_ErrorsResolveWithPipeError ==
    \A s \in PacketSide : ShortHeaderRead(s) => status = "failed"

\* C20: when the connection to the default server fails, no plugin state has
\* been created, no packet has been handed to a plugin and nothing has been
\* written to either socket
C20_NoServerNoRelay ==
    status = "refused" =>
        /\ inits = 0
        /\ seen = << >>
        /\ queue = << >>
        /\ w_all = << >>
        /\ \A s \in PacketSide : wr[s] = << >> /\ rd[s] = << >>

\* the connection failed for a pipe with two plugins whose client had sent
\* packets
C20_Witness ==
    /\ status = "refused"
    /\ n_plugins = 2
    /\ Len(net["Client"]) = 2

(***************************************************************************)
(* Properties of the plugin chain                                          *)
(***************************************************************************)

Encodable(m) == from_packet(m).ok

C16_EveryPluginOnceInOrder ==
    \A i \in 1..Len(seen) :
        /\ seen[i].calls = [k \in 1..n_plugins |-> k]
        /\ inits = n_plugins
        /\ seen[i].ctx.cancelled = (\E k \in 1..n_plugins : seen[i].cancels[k])
        /\ seen[i].decodes <= 1
        /\ (AskedTyped(i) /\ get_internal_id(game_id(seen[i].raw)).some) =>
              seen[i].decodes = 1

\* the first of two plugins cancelled a packet, the second did not, and both
\* asked for its typed form
C16_Witness ==
    /\ n_plugins = 2
    /\ Len(seen) >= 1
    /\ seen[1].cancels = << TRUE, FALSE >>
    /\ seen[1].typed = << TRUE, TRUE >>
    /\ seen[1].calls = << 1, 2 >>
    /\ seen[1].decodes = 1

\* the packets decoded so far from that side's socket
Decoded(s) == Len(sent[s]) - Len(net[s])

\* C17: there is one round of callbacks per packet decoded from the two
\* sockets, on that packet; the packets plugins send are written and never
\* handed to a callback
C17_InjectedBypassPlugins ==
    /\ Len(seen) = Decoded("Client") + Decoded("Server")
    /\ \A s \in PacketSide :
        Raws(SelectSeq(seen, LAMBDA x : x.side = s)) = SubSeq(sent[s], 1, Decoded(s))
    /\ Len(w_all) <= Len(seen) + Injected

\* more packets were written than callback rounds were run
C17_Witness ==
    /\ queue = << >>
    /\ Len(seen) = 2
    /\ Len(w_all) = 4

\* the client's first bytes are the policy request
RequestSent == starts_with(h_in, POLICY_REQUEST)

\* the policy request is never treated as a game connection, and what is
\* written is the policy document as it stands
PolicyRequestNeverFramed ==
    RequestSent =>
        /\ h_state \in {"peeking", "policy"}
        /\ h_fed = << >> /\ h_emitted = << >>
        /\ h_out = IF h_state = "policy" THEN POLICY_FILE ELSE << >>
        /\ h_shut = (h_state = "policy")

\* C18: when the first 23 bytes of a new connection are the policy request, the
\* policy document is written as it stands, the socket is shut down, and the
\* listener never yields a framed connection for it
C18_PolicyRequestAnswered ==
    /\ [] PolicyRequestNeverFramed
    /\ RequestSent ~> (h_state = "policy" /\ h_out = POLICY_FILE /\ h_shut)

C18_Witness ==
    /\ h_in = POLICY_REQUEST \o << 7 >>
    /\ h_state = "policy" /\ h_out = POLICY_FILE /\ h_shut

\* C19: once the bytes peeked are no prefix of the policy request the stream is
\* handed back with nothing taken off the socket and nothing written, so the
\* framed connection reads the client's bytes from the first one on and its
\* first frame is the client's first frame
C19_GameStreamUntouched ==
    h_state \in {"stream", "framed"} =>
        /\ ~starts_with(POLICY_REQUEST, h_bytes)
        /\ h_out = << >> /\ ~h_shut
        /\ h_read = Len(h_fed)
        /\ h_fed = SliceTo(h_in, Len(h_fed))
        /\ h_emitted # << >> =>
              /\ SliceTo(h_emitted[1].bytes, 5) = SliceTo(h_in, 5)
              /\ Len(h_emitted[1].bytes) = get_u32_be(h_in)

C19_Witness ==
    /\ h_in = << 0, 0, 0, 5, 42, 0, 0, 0, 6, 5, 200 >>
    /\ h_state = "framed"
    /\ Len(h_emitted) = 2
    /\ h_bytes # << >>

\* C30: for every variant a plugin sends, is_server is true exactly when the
\* variant is declared in the Server group, is_client exactly when it is
\* declared in the Client group, and the two are complementary
C30_SideTagsMatchCatalog ==
    \A i \in 1..Len(seen) : \A k \in 1..Len(seen[i].sent) :
        /\ is_server(Packet_get_internal_id(seen[i].sent[k]))
              = (Packet_get_internal_id(seen[i].sent[k]) \in ServerPackets)
        /\ is_client(Packet_get_internal_id(seen[i].sent[k]))
              = (Packet_get_internal_id(seen[i].sent[k]) \in ClientPackets)
        /\ is_client(Packet_get_internal_id(seen[i].sent[k]))
              # is_server(Packet_get_internal_id(seen[i].sent[k]))

\* the key given hex-decodes to exactly 26 bytes
KeyFits == hex_decode(m_hex).ok /\ Len(hex_decode(m_hex).v) = RC4_LEN

\* two wire IDs of the table given have the same internal ID
TwoWireIdsShare ==
    \E a, b \in DOMAIN m_ids : a # b /\ m_ids[a] = m_ids[b]

\* C25: Mappings::new returns InvalidRC4Key unless the key decodes to exactly
\* 26 bytes, InvalidPacketMappings when the key fits and two wire IDs have the
\* same internal ID, and a value otherwise; a value has a 26-byte key and at
\* most one wire ID for an internal ID
C25_NewValidates ==
    m_res.err # "uncalled" =>
        /\ ~KeyFits => (~m_res.ok /\ m_res.err = "InvalidRC4Key")
        /\ (KeyFits /\ TwoWireIdsShare) => (~m_res.ok /\ m_res.err = "InvalidPacketMappings")
        /\ (KeyFits /\ ~TwoWireIdsShare) => m_res.ok
        /\ m_res.ok =>
              /\ Len(m_res.v.binary_rc4) = RC4_LEN
              /\ m_res.v.binary_rc4 = hex_decode(m_hex).v
              /\ m_res.v.game_packet_ids = m_ids
              /\ \A a, b \in DOMAIN m_res.v.game_packet_ids :
                    m_res.v.game_packet_ids[a] = m_res.v.game_packet_ids[b] => a = b

C25_Witness ==
    /\ m_res.err = "InvalidPacketMappings"
    /\ Cardinality(DOMAIN m_ids) = 3
    /\ m_hex[1] = 65

\* C26: in a constructed Mappings the two lookups are inverse to each other on
\* the mapped IDs, and an ID is mapped on one side exactly when its image is
\* mapped on the other
C26_LookupsInverse ==
    m_res.ok =>
        /\ \A w \in DOMAIN m_res.v.game_packet_ids :
              /\ Mappings_get_internal_id(m_res.v, w).some
              /\ Mappings_get_game_id(m_res.v, Mappings_get_internal_id(m_res.v, w).v).some
              /\ Mappings_get_game_id(m_res.v, Mappings_get_internal_id(m_res.v, w).v).v = w
        /\ \A i \in DOMAIN m_res.v.internal_packet_ids :
              /\ Mappings_get_game_id(m_res.v, i).some
              /\ Mappings_get_internal_id(m_res.v, Mappings_get_game_id(m_res.v, i).v).some
              /\ Mappings_get_internal_id(m_res.v, Mappings_get_game_id(m_res.v, i).v).v = i
        /\ m_ask.op = "get_internal_id" =>
              m_ask.some = (m_ask.w \in DOMAIN m_ids)
        /\ m_ask.op = "get_game_id" =>
              m_ask.some = (\E w \in DOMAIN m_ids : m_ids[w] = m_ask.i)

C26_Witness ==
    /\ m_res.ok
    /\ Cardinality(DOMAIN m_ids) = 2
    /\ m_ask.op = "get_game_id" /\ m_ask.some /\ m_ask.i = "Ping"

\* the largest count the prefix type holds
PrefixMax(S) == CASE S = "u8" -> 255 [] S = "i8" -> 127 [] S = "u16" -> 65535

\* the number of elements put after the prefix: the elements of a sequence,
\* the bytes of a string
ElementCount ==
    IF c_type.k = "string" THEN Len(Joined([k \in 1..Len(c_val) |-> utf8_char(c_val[k])],
                                           1, Len(c_val)))
    ELSE Len(c_val)

\* the field has a length prefix that the number of elements does not fit
CountOverflows == c_type.k \in {"vec", "string"} /\ ElementCount > PrefixMax(c_type.S)

\* C27: a value whose put_be succeeds is read back by get_be from the bytes
\* written, which are consumed exactly; [1,2,3,4,5] with a 16-bit prefix is
\* written as 00 05 01 02 03 04 05 and "hello world" as 00 0B and its 11 bytes
C27_FieldRoundTrip ==
    /\ (c_put.ok /\ c_get.err # "uncalled") =>
          /\ c_get.ok
          /\ c_get.v = c_val
          /\ c_get.rest = c_tail
          /\ c_src = SliceFrom(c_put.dst, Len(c_dst)) \o c_tail
    /\ c_put.err # "uncalled" =>
          /\ SliceTo(c_put.dst, Len(c_dst)) = c_dst
          /\ ~CountOverflows => c_put.ok
          /\ (c_type = [k |-> "vec", S |-> "u16", T |-> "u8"] /\ c_val = << 1, 2, 3, 4, 5 >>) =>
                c_put.dst = c_dst \o << 0, 5, 1, 2, 3, 4, 5 >>
          /\ (/\ c_type = [k |-> "string", S |-> "u16", T |-> "u8"]
              /\ c_val = << 104, 101, 108, 108, 111, 32, 119, 111, 114, 108, 100 >>) =>
                c_put.dst = c_dst \o << 0, 11, 104, 101, 108, 108, 111, 32, 119, 111, 114,
                                        108, 100 >>

C27_Witness ==
    /\ c_type = [k |-> "string", S |-> "u16", T |-> "u8"]
    /\ c_val = << 233, 8364, 128512, 97 >>
    /\ c_tail = << 7, 7 >>
    /\ c_get.ok

\* C28: putting a sequence or a string whose number of elements does not fit
\* the prefix type fails with InvalidData and leaves the sink as it was
C28_OverflowWritesNothing ==
    (c_put.err # "uncalled" /\ CountOverflows) =>
        /\ ~c_put.ok
        /\ c_put.err = "InvalidData"
        /\ c_put.dst = c_dst

C28_Witness ==
    /\ c_type = [k |-> "vec", S |-> "u8", T |-> "u16"]
    /\ Len(c_val) = 300
    /\ c_dst = << 9 >>
    /\ c_put.err = "InvalidData"

\* buffers that hold a count and as many bytes, which are not UTF-8
BadUtf8(S) ==
    IF S = "u8" THEN { << 1, 255 >>, << 2, 195, 40 >> }
    ELSE { << 0, 1, 255 >>, << 0, 2, 192, 128 >>, << 0, 3, 237, 160, 128 >> }

\* C29: get_be of a string whose bytes are not UTF-8 fails with the
\* invalid-data kind of error
C29_BadUtf8IsInvalidData ==
    (c_type.k = "string" /\ c_get.err # "uncalled" /\ c_src \in BadUtf8(c_type.S)) =>
        (~c_get.ok /\ c_get.err = "InvalidData")

\* get_be of a string whose bytes are not UTF-8 fails
C29_BadUtf8Fails ==
    (c_type.k = "string" /\ c_get.err # "uncalled" /\ c_src \in BadUtf8(c_type.S)) => ~c_get.ok

\* the side of the packet handed to the plugin chain last
LastSide == seen'[Len(seen')].side

\* the first entry, in the order the HashMap yielded them, whose
\* abbreviation is key
FirstAbbreviated(key) ==
    s_order[CHOOSE k \in 1..Len(s_order) :
              /\ abbreviate_server_name(s_order[k]) = key
              /\ \A j \in 1..(k - 1) : abbreviate_server_name(s_order[j]) # key]

\* the names given that key is the lowercase form of
NamedBy(key) == { name \in DOMAIN s_servers : to_lowercase(name) = key }

\* every name given resolves, in lowercase, to its address
NamesResolve ==
    \A name \in DOMAIN s_servers :
        get_ip(s_list.servers, to_lowercase(name)) = Some(s_servers[name])

\* the keys are the lowercase names and the abbreviations, and an
\* abbreviation that is no name given resolves to the address of the first
\* entry it was made from
AliasesDoNotOverwrite ==
    /\ DOMAIN s_list.servers =
          { to_lowercase(name) : name \in DOMAIN s_servers }
          \cup { abbreviate_server_name(name) : name \in DOMAIN s_servers }
    /\ \A name \in DOMAIN s_servers :
        NamedBy(abbreviate_server_name(name)) = {} =>
            s_list.servers[abbreviate_server_name(name)]
                = s_servers[FirstAbbreviated(abbreviate_server_name(name))]

\* the list built from USEast, AsiaSouthEast and Australia
ExampleResolves ==
    DOMAIN s_servers = { USEast, AsiaSouthEast, Australia } =>
        /\ get_ip(s_list.servers, << "u", "s", "e", "a", "s", "t" >>) = Some(s_servers[USEast])
        /\ get_ip(s_list.servers, << "u", "s", "e" >>) = Some(s_servers[USEast])
        /\ get_ip(s_list.servers, << "a", "s", "s", "e" >>) = Some(s_servers[AsiaSouthEast])
        /\ get_ip(s_list.servers, << "a", "u", "s" >>) = Some(s_servers[Australia])

\* a socket address returned is the address get_ip returns with port 2050
SocketPairsPort ==
    s_ask.op = "get_socket" =>
        /\ s_ask.res.some = get_ip(s_list.servers, s_ask.name).some
        /\ s_ask.res.some =>
              s_ask.res.v = [ip |-> get_ip(s_list.servers, s_ask.name).v, port |-> 2050]

\* no two names given differ in case only
DistinctInLowerCase ==
    \A a, b \in DOMAIN s_servers : to_lowercase(a) = to_lowercase(b) => a = b

C38_OrderIndependent ==
    s_list.built =>
        /\ \A order \in Perms(DOMAIN s_servers) :
              ServerList_new(s_servers, order) = s_list.servers
        /\ NamesResolve

\* the digits of w * h * 4 for the dimensions read
TrueBitmapSize == mul_digits(mul_digits(pic_res.w, pic_res.h), << 4 >>)

\* C32: a Pic decodes only with a bitmap of exactly w * h * 4 bytes, the
\* product being the arithmetic one, and a buffer with fewer bytes after the
\* dimensions is refused with InsufficientData
C32_PicNeedsWholeBitmap ==
    /\ pic_res.kind = "ok" => same_number(<< Len(pic_res.bitmap_data) % 256,
                                            Len(pic_res.bitmap_data) \div 256 >>, TrueBitmapSize)
    /\ pic_res.kind # "uncalled" /\ Len(pic_src) >= 8
       /\ ~at_least(Len(pic_src) - 8, mul_digits(mul_digits(Reverse(SliceTo(pic_src, 4)),
                                                         Reverse(SubSeq(pic_src, 5, 8))), << 4 >>))
         => pic_res.kind = "err" /\ pic_res.err = "InsufficientData"

\* no callback cancelled a packet or sent one
NoPluginActed == \A i \in 1..Len(seen) : ~seen[i].cancel_called /\ seen[i].sent = << >>

\* the bytes of the complete frames the relay has received from a side
FramesReceived(side) ==
    Concat(SubSeq(PeerFrames(PeerCodec(side), sent[side]), 1,
                  Len(SelectSeq(seen, LAMBDA x : x.side = side))))

\* C34: in a relay where no plugin cancels or sends a packet, the bytes
\* written to the socket of one side are the bytes of the complete frames
\* received from the other side, the frame being forwarded excepted
C34_RelayIsIdentityOnBytes ==
    NoPluginActed =>
        \A side \in PacketSide :
            /\ IsPrefix(wr[Opposite(side)], FramesReceived(side))
            /\ queue = << >> => wr[Opposite(side)] = FramesReceived(side)

\* a relay with plugins, none of which cancelled or sent a packet, has
\* forwarded two client frames and a server frame
C34_Witness ==
    /\ n_plugins > 0
    /\ NoPluginActed
    /\ Len(seen) = 3
    /\ queue = << >>
    /\ Len(wr["Server"]) > 9
    /\ Len(wr["Client"]) > 0
    /\ wr["Server"] = FramesReceived("Client")

\* C36: a message that from_packet converts is returned by to_packet on the
\* raw packet it was converted to
C36_TypedRoundTrip ==
    t_back.err # "uncalled" => t_back.ok /\ t_back.packet = t_packet

\* a message whose optional fields are both present, or both absent, or of
\* which only the last is absent, comes back as it was
TrailingOptionsComeBack ==
    (t_back.err # "uncalled" /\ ~(t_packet.id = "EnemyShoot" /\ ~t_packet.fields[8].some
                                  /\ t_packet.fields[9].some))
        => t_back.ok /\ t_back.packet = t_packet

\* the first bytes a client sends differ from the request
Diverges(input) ==
    ~starts_with(POLICY_REQUEST,
                 SliceTo(input, IF Len(input) < Len(POLICY_REQUEST) THEN Len(input)
                                ELSE Len(POLICY_REQUEST)))

\* all a client sends is a strict, possibly empty, prefix of the request
OnlyAPrefix(input) == starts_with(POLICY_REQUEST, input) /\ input # POLICY_REQUEST

\* connection i has been made and is a game connection
GameConnection(i) == i <= Len(l_conns) /\ Diverges(l_conns[i].input)

\* connection i has been yielded as a framed connection
Yielded(i) == i <= Len(l_conns) /\ l_conns[i].state = "framed"

\* C37: every game connection is eventually yielded by the listener, whatever
\* the connections made before it are doing in their preambles
C37_UndecidedDoesNotBlock == \A i \in 1..MaxConns : GameConnection(i) ~> Yielded(i)

\* a game connection is eventually yielded when every connection made before
\* it sends enough to decide its preamble
DecidedOnesDoNotBlock ==
    \A i \in 1..MaxConns :
        (GameConnection(i) /\ \A j \in 1..(i - 1) : ~OnlyAPrefix(l_conns[j].input))
            ~> Yielded(i)

\* the listener yields connections in the order they were made, and holds at
\* most one preamble at a time
ListenerIsSerial ==
    /\ \A a, b \in 1..Len(l_yielded) : a < b => l_yielded[a] < l_yielded[b]
    /\ Cardinality({ i \in 1..Len(l_conns) : l_conns[i].state \in { "peeking", "policy", "stream" } }) <= 1

\* the relays that ended in failure
Failed == { r \in Relays : r_status[r] \in { "refused", "failed" } }

\* a step in which relay r ends in failure
Fails(r) == r_status[r] \notin { "refused", "failed" } /\ r_status'[r] \in { "refused", "failed" }

\* the listener and the relays other than r are where they were
OthersUntouched(r) ==
    /\ r_conns' = r_conns
    /\ r_lock' = r_lock
    /\ \A q \in Relays \ { r } :
        r_status'[q] = r_status[q] /\ r_open'[q] = r_open[q] /\ r_states'[q] = r_states[q]

\* every step another relay or the accept loop could take is still possible
NothingStalled ==
    /\ r_conns < MaxRelays => ENABLED Accept
    /\ (\E q \in Relays : r_status[q] = "connecting") => ENABLED ServerConnection
    /\ (\E q \in Relays : r_status[q] = "connected") /\ r_lock = {} => ENABLED Lock
    /\ (\E q \in Relays : r_status[q] = "locked") => ENABLED InitPlugin \/ ENABLED Unlock
    /\ (\E q \in Relays : r_status[q] = "running") => ENABLED RelayEnds

CallsOf(r) == SelectSeq(r_log, LAMBDA e : e.relay = r)

\* C24: the init_plugin calls of a relay follow the registration order, each
\* factory being called once by the time the relay runs, every call is made
\* by the only holder of the plugin lock, the calls of two relays do not
\* interleave, the state vector of a relay holds the states its calls
\* returned in that order, and a relay hands packets to its own states only
C24_InitUnderLock ==
    /\ \A r \in Relays :
        /\ IsPrefix([k \in 1..Len(CallsOf(r)) |-> CallsOf(r)[k].factory], r_plugins)
        /\ r_status[r] \in { "running", "done", "failed" } => Len(CallsOf(r)) = Len(r_plugins)
        /\ r_states[r] = [k \in 1..Len(CallsOf(r)) |-> init_plugin(CallsOf(r)[k].factory, r)]
    /\ \A k \in 1..Len(r_log) : r_log[k].alone
    /\ \A i, j, k \in 1..Len(r_log) :
        i < j /\ j < k /\ r_log[i].relay = r_log[k].relay => r_log[j].relay = r_log[i].relay
    /\ \A u \in r_used : u.state.relay = u.by

\* two relays run at once, each with the states of both factories, registered
\* in descending order
C24_Witness ==
    /\ r_plugins = << 2, 1 >>
    /\ r_status[1] = "running" /\ r_status[2] = "running"
    /\ Len(r_log) = 4
    /\ r_log[1].relay = 2
    /\ r_used # {}

\* the items the sinks hold in front of the framed writers
HeldItems == held["Client"] \o down["Client"] \o held["Server"] \o down["Server"]

\* C22: the chain runs for a packet only when no item of an earlier batch is
\* still waiting in front of the writer of a codec, so the items waiting for
\* a writer all belong to the batch of the packet received last
C22_OneBatchInFlight ==
    /\ \A i \in 1..Len(seen) : seen[i].pending = 0
    /\ \A k \in 1..Len(HeldItems) : HeldItems[k].batch = Len(seen)

\* C23: the merge of the two inbound streams is fair: once a packet of one
\* side has been handed to the plugin chain, the stream of the other side is
\* the one polled first for the next packet, so a packet waiting there is
\* taken before another packet of the first side
C23_MergeIsFair ==
    [][(Len(seen') > Len(seen) /\ ~fused'[Opposite(LastSide)])
            => flag' = (Opposite(LastSide) = "Server")]_vars

C23_Witness ==
    /\ Len(seen) >= 3
    /\ seen[1].side = "Client" /\ seen[2].side = "Server" /\ seen[3].side = "Client"
    /\ \A x \in PacketSide : ~fused[x]
    /\ status = "running"

====
